---- MODULE Spec2Model ----
(***************************************************************************)
(* A model of the weather dashboard: the persistence store                 *)
(* (lib/storage.ts), the weather client (lib/weather-api.ts), the time     *)
(* window of the timeline (components/weather-timeline) and its weather    *)
(* batches, the color rules of the sidebar and of the map layer, the       *)
(* drawing of polygons, the geometry of lib/leaflet-utils.ts and the       *)
(* debounced save of the map view.                                         *)
(*                                                                         *)
(* Time is counted in ticks.  One hour is TicksPerHour ticks, the model's  *)
(* day is HoursPerDay hours (24 in the source) and the half-width of the   *)
(* timeline's extent is ExtentHours hours (15 * 24 in the source).         *)
(***************************************************************************)
EXTENDS Integers, Sequences, FiniteSets, TLC

VARIABLES
  \* WeatherTimeline: the time selection, playback, the handle being dragged
  timeSelection, isPlaying, isDragging,
  \* the last input the timeline handled
  lastInput,
  \* localStorage: where the code runs, and the text under STORAGE_KEY
  storageEnv, storageItem,
  \* what Date.now() reads
  now,
  \* the last call of the persistence store: its name, argument and outcome
  lastCall,
  \* WeatherDashboard: the polygons, the color rules, the data source shown
  polygons, colorRules, selectedDataSource,
  \* the fill color of the polygon's layer on the map
  fillColor,
  \* a call of fetchWeatherData: where it stands, its arguments, its outcome
  fetchPc, fetchArgs, fetchResult,
  \* WeatherTimeline: the loading indicator, and the runs of
  \* fetchAllWeatherData that have not returned yet
  isLoading, batches,
  \* the map: the points of the polygon being drawn, and what the last call
  \* of completePolygon did
  currentPolygon, completed,
  \* a call of a function of lib/leaflet-utils.ts: its arguments, its result
  geoArgs, geoResult,
  \* WeatherDashboard's mapView, and LeafletVisualization: the map's center
  \* and zoom, the timer of the debounced save (the ticks left, if it is set),
  \* where the effect that made the map stands, and isMobile
  mapView, mapPosition, saveTimeout, mapEffect, isMobile,
  \* the ticks since the map last moved, the moves so far, and the writes
  \* of the map view since the map last moved
  sinceMove, moves, mapWrites

storageVars == <<storageEnv, storageItem, lastCall>>
timelineVars == <<timeSelection, isPlaying, isDragging, lastInput>>
colorVars == <<polygons, colorRules, selectedDataSource, fillColor>>
fetchVars == <<fetchPc, fetchArgs, fetchResult>>
batchVars == <<isLoading, batches>>
drawVars == <<currentPolygon, completed>>
geoVars == <<geoArgs, geoResult>>
mapVars == <<mapView, mapPosition, saveTimeout, mapEffect, isMobile, sinceMove, moves,
            mapWrites>>

\* ------------------------------------------------------------------ bounds

\* Ticks in one hour: the time resolution of the model.
TicksPerHour == 2
\* Hours in the model's day (stands for the 24 of dayMs = 24 * hourMs).
HoursPerDay == 2
\* Hours in the half-width of the extent (stands for the 15 * 24 of
\* fifteenDaysMs).
ExtentHours == 4
\* Pointer positions on the timeline: position p is p / PosSteps of its width.
PosSteps == 8
\* How many hours before the extent a stored selection may lie.
StoredAgeHours == 4
\* How far the clock advances in the persistence specification.
MaxClockTicks == 1
\* How many hours beyond the extent the selections the model follows reach.
MaxOutsideHours == 1
\* How many conditions the sidebar adds to a rule before the model stops it.
MaxConditions == 2
\* How many hourly records a response of the weather service holds.
MaxHours == 2

\* ------------------------------------------------------- JavaScript values

\* A JavaScript value is a record tagged with its kind.  NaN is a value of
\* type number that no comparison contains and that JSON cannot write.
Undefined == [t |-> "undefined"]
Null == [t |-> "null"]
NaN == [t |-> "NaN"]
Num(n) == [t |-> "number", v |-> n]
Str(s) == [t |-> "string", v |-> s]
Arr(s) == [t |-> "array", v |-> s]
\* An object: a function from its own keys to values.  A key whose value is
\* undefined reads like an absent key, so objects never hold one.
Obj(f) == [t |-> "object", v |-> f]

\* typeof v
TypeOf(v) ==
  CASE v.t \in {"number", "NaN"} -> "number"
    [] v.t = "string" -> "string"
    [] v.t = "undefined" -> "undefined"
    [] OTHER -> "object"

\* Array.isArray(v)
IsArray(v) == v.t = "array"

\* The truthiness `v || d` tests.
Truthy(v) ==
  CASE v.t \in {"undefined", "null", "NaN"} -> FALSE
    [] v.t = "number" -> v.v # 0
    [] v.t = "string" -> v.v # ""
    [] OTHER -> TRUE

\* v.key for a value other than null and undefined (on those it throws).
Get(v, key) ==
  IF v.t = "object" /\ key \in DOMAIN v.v THEN v.v[key] ELSE Undefined

\* ------------------------------------------------------------------- JSON

\* What JSON.stringify writes for v, as the value JSON.parse reads back: NaN
\* becomes null, an undefined array element becomes null, an object key
\* whose value is undefined is left out.
RECURSIVE ToJson(_)
ToJson(v) ==
  CASE v.t = "NaN" -> Null
    [] v.t = "undefined" -> Null
    [] v.t = "array" -> Arr([i \in DOMAIN v.v |-> ToJson(v.v[i])])
    [] v.t = "object" ->
         Obj([k \in {x \in DOMAIN v.v : v.v[x].t # "undefined"} |-> ToJson(v.v[k])])
    [] OTHER -> v

\* The text held under the storage key: nothing, the empty string, a text
\* that is not JSON, or the JSON text of a value.
NoItem == [kind |-> "none"]
EmptyText == [kind |-> "empty"]
GarbageText == [kind |-> "garbage"]
JsonText(v) == [kind |-> "json", val |-> v]

\* JSON.stringify(v)
Stringify(v) == JsonText(ToJson(v))

\* ------------------------------------------------------------ lib/storage

\* The top-level fields of StorageData.
StorageFields ==
  {"polygons", "colorRules", "selectedDataSource", "timeSelection", "mapView"}

\* Weather metrics and thresholds are numbers in thousandths of their unit.
Units(n) == n * 1000

Condition(min, max, color, label) ==
  Obj([min |-> Num(Units(min)), max |-> Num(Units(max)), color |-> Str(color),
       label |-> Str(label)])

ColorRule(id, dataSource, conditions) ==
  Obj([id |-> Str(id), dataSource |-> Str(dataSource), conditions |-> Arr(conditions)])

\* defaultState.colorRules
DefaultColorRules ==
  Arr(<<
    ColorRule("temp-default", "temperature", <<
      Condition(-50, 0, "#3b82f6", "Very Cold"),
      Condition(0, 10, "#06b6d4", "Cold"),
      Condition(10, 20, "#10b981", "Mild"),
      Condition(20, 30, "#f59e0b", "Warm"),
      Condition(30, 50, "#ef4444", "Hot") >>),
    ColorRule("humidity-default", "humidity", <<
      Condition(0, 30, "#fbbf24", "Dry"),
      Condition(30, 60, "#10b981", "Comfortable"),
      Condition(60, 80, "#3b82f6", "Humid"),
      Condition(80, 100, "#1e40af", "Very Humid") >>),
    ColorRule("wind-default", "windSpeed", <<
      Condition(0, 10, "#10b981", "Calm"),
      Condition(10, 20, "#f59e0b", "Breezy"),
      Condition(20, 40, "#ef4444", "Windy"),
      Condition(40, 100, "#7c2d12", "Very Windy") >>),
    ColorRule("precip-default", "precipitation", <<
      Condition(0, 1, "#e5e7eb", "None"),
      Condition(1, 5, "#3b82f6", "Light"),
      Condition(5, 15, "#1d4ed8", "Moderate"),
      Condition(15, 50, "#1e3a8a", "Heavy") >>) >>)

\* A map view; coordinates are in 1/10000 of a degree.
MapView(lat, lng, zoom) ==
  Obj([center |-> Arr(<<Num(lat), Num(lng)>>), zoom |-> Num(zoom)])

\* A single instant and a range, as the objects the program keeps and stores.
SingleJs(t) == Obj([mode |-> Str("single"), single |-> Num(t)])
RangeJs(s, e) == Obj([mode |-> Str("range"), range |-> Arr(<<Num(s), Num(e)>>)])

\* defaultState, built when Date.now() reads t.
defaultState(t) ==
  [polygons |-> Arr(<<>>),
   colorRules |-> DefaultColorRules,
   selectedDataSource |-> Str("temperature"),
   timeSelection |-> SingleJs(t),
   mapView |-> MapView(407128, -740060, 10)]

\* How a call ends: it returns ret, or it throws.
Return(v) == [threw |-> FALSE, ret |-> v]
Throw == [threw |-> TRUE, ret |-> Undefined]

\* Where the code runs.  "ok": a browser whose storage works; "full": reads
\* work and setItem throws (quota); "blocked": every access to localStorage
\* throws; "server": there is no window and no localStorage.
StorageEnvs == {"ok", "full", "blocked", "server"}

\* The try block of getFromStorage.
getFromStorageTry(env, item, t) ==
  IF env = "server" THEN Return(defaultState(t))
  ELSE IF env = "blocked" THEN Throw
  ELSE IF item.kind \in {"none", "empty"} THEN Return(defaultState(t))
  ELSE IF item.kind = "garbage" THEN Throw
  ELSE LET parsed == item.val
           d == defaultState(t)
       IN IF parsed.t = "null" THEN Throw
          ELSE Return(
            [polygons |-> IF IsArray(Get(parsed, "polygons"))
                          THEN Get(parsed, "polygons") ELSE d.polygons,
             colorRules |-> IF IsArray(Get(parsed, "colorRules"))
                            THEN Get(parsed, "colorRules") ELSE d.colorRules,
             selectedDataSource |-> IF Truthy(Get(parsed, "selectedDataSource"))
                                    THEN Get(parsed, "selectedDataSource")
                                    ELSE d.selectedDataSource,
             timeSelection |-> IF Truthy(Get(parsed, "timeSelection"))
                               THEN Get(parsed, "timeSelection") ELSE d.timeSelection,
             mapView |-> IF Truthy(Get(parsed, "mapView"))
                         THEN Get(parsed, "mapView") ELSE d.mapView])

\* getFromStorage() without its catch block.
getFromStorageNoCatch(env, item, t) == getFromStorageTry(env, item, t)

\* getFromStorage(): the catch block returns defaultState.
getFromStorage(env, item, t) ==
  LET r == getFromStorageTry(env, item, t)
  IN IF r.threw THEN Return(defaultState(t)) ELSE r

\* Variants of the spread: the partial alone, and the stored fields winning.
SpreadDataOnly(existing, data) == data

SpreadExistingWins(existing, data) ==
  [k \in DOMAIN existing \cup DOMAIN data |->
     IF k \in DOMAIN existing THEN existing[k] ELSE data[k]]

\* { ...existing, ...data }
Spread(existing, data) ==
  [k \in DOMAIN existing \cup DOMAIN data |->
     IF k \in DOMAIN data THEN data[k] ELSE existing[k]]

\* The try block of saveToStorage: the item afterwards, or a throw that
\* leaves the item as it was.
saveToStorageTry(env, item, t, data) ==
  LET existing == getFromStorage(env, item, t)
  IN IF existing.threw \/ env # "ok"
     THEN [threw |-> TRUE, item |-> item]
     ELSE [threw |-> FALSE, item |-> Stringify(Obj(Spread(existing.ret, data)))]

\* saveToStorage(data): a failure is logged and swallowed.
saveToStorage(env, item, t, data) ==
  [threw |-> FALSE, item |-> saveToStorageTry(env, item, t, data).item]

\* The try block of clearStorage: localStorage.removeItem.
clearStorageTry(env, item) ==
  IF env \in {"blocked", "server"}
  THEN [threw |-> TRUE, item |-> item]
  ELSE [threw |-> FALSE, item |-> NoItem]

\* clearStorage(): a failure is logged and swallowed.
clearStorage(env, item) ==
  [threw |-> FALSE, item |-> clearStorageTry(env, item).item]

\* --------------------------------------------------- time, in ticks

hourMs == TicksPerHour
dayMs == HoursPerDay * hourMs
fifteenDaysMs == ExtentHours * hourMs

\* The instant the model starts at: a time that is not on an hour boundary.
StartTime == 4 * fifteenDaysMs + 1

\* ------------------------------------------ the persistence store in use

\* The values the dashboard passes to saveToStorage, field by field.
StoredPolygon ==
  Obj([id |-> Str("polygon-1"),
       coordinates |-> Arr(<< Arr(<<Num(407000), Num(-740100)>>),
                              Arr(<<Num(407200), Num(-740000)>>),
                              Arr(<<Num(407100), Num(-739900)>>) >>),
       name |-> Str("Zone A"), color |-> Str("#3b82f6")])

\* The rules after the sidebar's min field was emptied: parseFloat("") is NaN.
EditedColorRules ==
  Arr(<< ColorRule("temp-default", "temperature", <<
           Obj([min |-> NaN, max |-> Num(Units(10)), color |-> Str("#3b82f6"),
                label |-> Str("Cold")]) >>) >>)

FieldValues ==
  [polygons |-> {Arr(<<>>), Arr(<<StoredPolygon>>)},
   colorRules |-> {DefaultColorRules, EditedColorRules},
   selectedDataSource |-> {Str("temperature"), Str("windSpeed")},
   timeSelection |-> {SingleJs(StartTime), RangeJs(StartTime - hourMs, StartTime + hourMs)},
   mapView |-> {MapView(407128, -740060, 10), MapView(515000, -1200, 0)}]

\* A whole state, every field given.
FullStates ==
  [polygons : FieldValues.polygons, colorRules : FieldValues.colorRules,
   selectedDataSource : FieldValues.selectedDataSource,
   timeSelection : {SingleJs(StartTime)},
   mapView : {MapView(407128, -740060, 10)}]

\* The arguments of saveToStorage: one field (what every handler of the
\* dashboard passes), or a whole state.
SaveInputs ==
  UNION {{[k \in {f} |-> x] : x \in FieldValues[f]} : f \in StorageFields}
    \cup FullStates

\* What the storage key may hold when the page loads: nothing, texts that
\* are not JSON, JSON that is no object, objects whose fields are missing
\* or of another shape, and a state saved earlier.
InitialItems ==
  {NoItem, EmptyText, GarbageText, JsonText(Null), JsonText(Num(5)),
   JsonText(Obj([polygons |-> Str("none"), colorRules |-> Null,
                 selectedDataSource |-> Str("pressure"),
                 timeSelection |-> Str("yesterday"), mapView |-> Num(7)])),
   JsonText(Obj([selectedDataSource |-> Str(""), timeSelection |-> Num(0),
                 polygons |-> Arr(<<StoredPolygon>>)])),
   Stringify(Obj([polygons |-> Arr(<<StoredPolygon>>),
                  colorRules |-> DefaultColorRules,
                  selectedDataSource |-> Str("windSpeed"),
                  timeSelection |-> SingleJs(StartTime - dayMs),
                  mapView |-> MapView(515000, -1200, 0)]))}

\* The timeline's variables where the timeline is not modelled.
TimelineIdle ==
  /\ timeSelection = [mode |-> "single", single |-> StartTime]
  /\ isPlaying = FALSE
  /\ isDragging = "null"
  /\ lastInput = [key |-> "none"]

\* The dashboard's variables where the color rules are not modelled.
ColorIdle ==
  /\ polygons = Arr(<<>>)
  /\ colorRules = Arr(<<>>)
  /\ selectedDataSource = "temperature"
  /\ fillColor = "none"

\* No call of fetchWeatherData is under way.
FetchIdle ==
  /\ fetchPc = "idle"
  /\ fetchArgs = <<>>
  /\ fetchResult = <<>>

\* No run of fetchAllWeatherData is under way.
BatchIdle ==
  /\ isLoading = FALSE
  /\ batches = <<>>

\* Nothing is being drawn on the map.
DrawIdle ==
  /\ currentPolygon = <<>>
  /\ completed = "none"

\* No function of lib/leaflet-utils.ts is being called.
GeoIdle ==
  /\ geoArgs = <<>>
  /\ geoResult = <<>>

\* The map with no move since it was made.
MapIdle ==
  /\ mapView = defaultState(StartTime).mapView
  /\ mapPosition = defaultState(StartTime).mapView
  /\ saveTimeout = <<>>
  /\ mapEffect = "mounted"
  /\ isMobile = FALSE
  /\ sinceMove = 0
  /\ moves = 0
  /\ mapWrites = 0

NoCall == [op |-> "none", data |-> <<>>, threw |-> FALSE, ret |-> <<>>]

InitStorage ==
  /\ storageEnv \in StorageEnvs
  /\ storageItem \in InitialItems
  /\ now = StartTime
  /\ lastCall = NoCall
  /\ TimelineIdle
  /\ ColorIdle
  /\ FetchIdle
  /\ BatchIdle
  /\ DrawIdle
  /\ GeoIdle
  /\ MapIdle

\* saveToStorage(data)
CallSave(data) ==
  LET r == saveToStorage(storageEnv, storageItem, now, data)
  IN /\ storageItem' = r.item
     /\ lastCall' = [op |-> "save", data |-> data, threw |-> r.threw, ret |-> <<>>]
     /\ UNCHANGED <<storageEnv, now, timelineVars, colorVars, fetchVars, batchVars, drawVars, geoVars, mapVars>>

\* getFromStorage()
CallLoad ==
  LET r == getFromStorage(storageEnv, storageItem, now)
  IN /\ lastCall' = [op |-> "load", data |-> <<>>, threw |-> r.threw,
                     ret |-> IF r.threw THEN <<>> ELSE r.ret]
     /\ UNCHANGED <<storageEnv, storageItem, now, timelineVars, colorVars, fetchVars, batchVars, drawVars, geoVars, mapVars>>

\* clearStorage()
CallClear ==
  LET r == clearStorage(storageEnv, storageItem)
  IN /\ storageItem' = r.item
     /\ lastCall' = [op |-> "clear", data |-> <<>>, threw |-> r.threw, ret |-> <<>>]
     /\ UNCHANGED <<storageEnv, now, timelineVars, colorVars, fetchVars, batchVars, drawVars, geoVars, mapVars>>

\* Time passes.
ClockTick ==
  /\ now < StartTime + MaxClockTicks
  /\ now' = now + 1
  /\ UNCHANGED <<storageVars, timelineVars, colorVars, fetchVars, batchVars, drawVars, geoVars, mapVars>>

NextStorage ==
  \/ \E data \in SaveInputs : CallSave(data)
  \/ CallLoad
  \/ CallClear
  \/ ClockTick

vars == <<storageEnv, storageItem, now, lastCall, timeSelection, isPlaying,
          isDragging, lastInput, polygons, colorRules, selectedDataSource,
          fillColor, fetchPc, fetchArgs, fetchResult, isLoading, batches,
          currentPolygon, completed, geoArgs, geoResult, mapView, mapPosition,
          saveTimeout, mapEffect, isMobile, sinceMove, moves, mapWrites>>

SpecStorage == InitStorage /\ [][NextStorage]_vars

\* ------------------------------------------- claims on the persistence store

\* What getFromStorage() returns in the current state.
Loaded == getFromStorage(storageEnv, storageItem, now)

\* v holds neither NaN nor undefined: JSON has a notation for all of it.
RECURSIVE JsonRepresentable(_)
JsonRepresentable(v) ==
  CASE v.t \in {"NaN", "undefined"} -> FALSE
    [] v.t = "array" -> \A i \in DOMAIN v.v : JsonRepresentable(v.v[i])
    [] v.t = "object" -> \A k \in DOMAIN v.v : JsonRepresentable(v.v[k])
    [] OTHER -> TRUE

\* The last call saved a whole state and the write went through.
SavedWholeState ==
  /\ lastCall.op = "save"
  /\ DOMAIN lastCall.data = StorageFields
  /\ storageEnv = "ok"

PartialSaveFrame ==
  [][(\E data \in SaveInputs : CallSave(data)) =>
       \A f \in StorageFields \ DOMAIN lastCall'.data :
         getFromStorage(storageEnv', storageItem', now').ret[f] = Loaded.ret[f]]_vars

\* C7's case: a save of the polygons alone went through and the data
\* source and the map view persisted before it are still read back.
PartialSaveWitness ==
  /\ lastCall.op = "save"
  /\ DOMAIN lastCall.data = {"polygons"}
  /\ storageEnv = "ok"
  /\ Loaded.ret.polygons = lastCall.data.polygons
  /\ Loaded.ret.selectedDataSource = Str("windSpeed")
  /\ Loaded.ret.mapView = MapView(515000, -1200, 0)

\* Storage is unavailable, empty, cleared, or holds what cannot be parsed.
NothingToLoad ==
  \/ storageEnv \in {"blocked", "server"}
  \/ storageItem.kind \in {"none", "empty", "garbage"}

\* C8: no call of the persistence store raises, and getFromStorage()
\* returns the whole default state when there is nothing it can load.
PersistenceNeverRaises ==
  /\ ~lastCall.threw
  /\ ~Loaded.threw
  /\ NothingToLoad => Loaded.ret = defaultState(now)

\* C8's case: getFromStorage() was called on a text that is not JSON and
\* returned the default state.
PersistenceNeverRaisesWitness ==
  /\ lastCall.op = "load"
  /\ storageEnv = "ok"
  /\ storageItem = GarbageText
  /\ ~lastCall.threw
  /\ lastCall.ret = defaultState(now)

DataSources == {"temperature", "humidity", "windSpeed", "precipitation"}

\* A tagged single/range object.
IsTimeSelectionJs(v) ==
  /\ v.t = "object"
  /\ \/ Get(v, "mode") = Str("single") /\ Get(v, "single").t = "number"
     \/ /\ Get(v, "mode") = Str("range")
        /\ IsArray(Get(v, "range"))
        /\ Len(Get(v, "range").v) = 2

\* An object with a center and a zoom.
IsMapViewJs(v) ==
  /\ v.t = "object"
  /\ IsArray(Get(v, "center"))
  /\ Get(v, "zoom").t = "number"

\* C9: when the stored text parses as JSON, every field getFromStorage()
\* returns has its expected shape.
LoadedShapes ==
  (lastCall.op = "load" /\ storageEnv \in {"ok", "full"} /\ storageItem.kind = "json")
    => /\ IsArray(lastCall.ret.polygons)
       /\ IsArray(lastCall.ret.colorRules)
       /\ lastCall.ret.selectedDataSource \in {Str(k) : k \in DataSources}
       /\ IsTimeSelectionJs(lastCall.ret.timeSelection)
       /\ IsMapViewJs(lastCall.ret.mapView)

\* ------------------------------------------------------- WeatherTimeline

Single(t) == [mode |-> "single", single |-> t]
Range(s, e) == [mode |-> "range", range |-> <<s, e>>]

\* What a handler leaves when it does not call onTimeSelectionChange.
NotCalled == [mode |-> "not called"]

Max(a, b) == IF a >= b THEN a ELSE b
Min(a, b) == IF a <= b THEN a ELSE b

\* timeExtent: [now - fifteenDaysMs, now + fifteenDaysMs]
timeExtent == <<now - fifteenDaysMs, now + fifteenDaysMs>>

\* Math.round(num / den) for den > 0: the nearest integer, a half rounded up.
MathRound(num, den) == (2 * num + den) \div (2 * den)

\* positionToTime(position), the position being p / PosSteps of the width:
\* the timestamp under it, rounded to the nearest hour.
positionToTime(p) ==
  LET start == timeExtent[1]
      end == timeExtent[2]
  IN MathRound(start * PosSteps + p * (end - start), PosSteps * hourMs) * hourMs

\* x / 2 is a whole number of ticks.
Halves(x) == x % 2 = 0

\* The selection as the object handed to saveToStorage.
selToJs(sel) ==
  IF sel.mode = "single" THEN SingleJs(sel.single)
  ELSE RangeJs(sel.range[1], sel.range[2])

\* moveTime without Math.max and Math.min on the new time.
moveTimeNoClamp(sel, deltaMs) ==
  IF sel.mode = "single" /\ sel.single # 0
  THEN Single(sel.single + deltaMs)
  ELSE IF sel.mode = "range"
  THEN Range(sel.range[1] + deltaMs, sel.range[2] + deltaMs)
  ELSE NotCalled

\* moveTime(deltaMs)
moveTime(sel, deltaMs) ==
  IF sel.mode = "single" /\ sel.single # 0
  THEN Single(Max(timeExtent[1], Min(timeExtent[2], sel.single + deltaMs)))
  ELSE IF sel.mode = "range"
  THEN LET start == sel.range[1]
           duration == sel.range[2] - sel.range[1]
           newStart == Max(timeExtent[1], Min(timeExtent[2] - duration, start + deltaMs))
       IN Range(newStart, newStart + duration)
  ELSE NotCalled

\* The expansion without Math.max and Math.min on the new ends.
expandRangeNoClamp(sel, expansion) ==
  IF sel.mode = "range"
  THEN Range(sel.range[1] - expansion, sel.range[2] + expansion)
  ELSE NotCalled

\* handleKeyDown, ArrowUp: expand the range.
expandRange(sel, expansion) ==
  IF sel.mode = "range"
  THEN Range(Max(timeExtent[1], sel.range[1] - expansion),
             Min(timeExtent[2], sel.range[2] + expansion))
  ELSE NotCalled

\* The contraction without its test of the new ends.
contractRangeNoGuard(sel, contraction) ==
  IF sel.mode = "range"
  THEN Range(sel.range[1] + contraction, sel.range[2] - contraction)
  ELSE NotCalled

\* handleKeyDown, ArrowDown: contract the range.
contractRange(sel, contraction) ==
  IF sel.mode = "range"
  THEN LET newStart == sel.range[1] + contraction
           newEnd == sel.range[2] - contraction
       IN IF newEnd > newStart THEN Range(newStart, newEnd) ELSE NotCalled
  ELSE NotCalled

\* Home and the skip-back button: go to the start of the timeline.
goToStart(sel) ==
  IF sel.mode = "single" THEN Single(timeExtent[1])
  ELSE Range(timeExtent[1], timeExtent[1] + (sel.range[2] - sel.range[1]))

\* End and the skip-forward button: go to the end of the timeline.
goToEnd(sel) ==
  IF sel.mode = "single" THEN Single(timeExtent[2])
  ELSE Range(timeExtent[2] - (sel.range[2] - sel.range[1]), timeExtent[2])

\* The "Time Range" button.
toRangeMode(sel) ==
  IF sel.mode = "single" /\ sel.single # 0
  THEN Range(sel.single - hourMs, sel.single + hourMs)
  ELSE NotCalled

\* The "Single Point" button collapsing the range to its start.
toSingleModeStart(sel) ==
  IF sel.mode = "range" THEN Single(sel.range[1]) ELSE NotCalled

\* The "Single Point" button.
toSingleMode(sel) ==
  IF sel.mode = "range"
  THEN Single((sel.range[1] + sel.range[2]) \div 2)
  ELSE NotCalled

\* handleKeyDown, 'r'
toggleMode(sel) ==
  IF sel.mode = "single" /\ sel.single # 0
  THEN Range(sel.single - hourMs, sel.single + hourMs)
  ELSE IF sel.mode = "range"
  THEN LET center == (sel.range[1] + sel.range[2]) \div 2
       IN Single(center)
  ELSE NotCalled

\* handleMouseMove once the pointer is at newTime.
dragTo(sel, dragging, newTime) ==
  IF sel.mode = "single" /\ dragging = "single" THEN Single(newTime)
  ELSE IF sel.mode = "range"
  THEN CASE dragging = "start" ->
              Range(Min(newTime, sel.range[2] - hourMs), sel.range[2])
         [] dragging = "end" ->
              Range(sel.range[1], Max(newTime, sel.range[1] + hourMs))
         [] dragging = "range" ->
              LET duration == sel.range[2] - sel.range[1]
                  newStart == Max(timeExtent[1],
                                  Min(timeExtent[2] - duration, newTime - duration \div 2))
              IN Range(newStart, newStart + duration)
         [] OTHER -> NotCalled
  ELSE NotCalled

\* handleTimelineClick once the click is at clickedTime.
clickAt(sel, clickedTime) ==
  IF sel.mode = "single" THEN Single(clickedTime)
  ELSE LET duration == sel.range[2] - sel.range[1]
           newStart == Max(timeExtent[1],
                           Min(timeExtent[2] - duration, clickedTime - duration \div 2))
       IN Range(newStart, newStart + duration)

\* The tick that advances by one hour and never wraps.
playStepNoWrap(sel) ==
  IF sel.mode = "single" /\ sel.single # 0 THEN Single(sel.single + hourMs)
  ELSE IF sel.mode = "range" THEN Range(sel.range[1] + hourMs, sel.range[2] + hourMs)
  ELSE NotCalled

\* The interval callback of the auto-play effect.
playStep(sel) ==
  IF sel.mode = "single" /\ sel.single # 0
  THEN IF sel.single + hourMs > timeExtent[2]
       THEN Single(timeExtent[1])
       ELSE Single(sel.single + hourMs)
  ELSE IF sel.mode = "range"
  THEN LET duration == sel.range[2] - sel.range[1]
           newStart == sel.range[1] + hourMs
       IN IF newStart + duration > timeExtent[2]
          THEN Range(timeExtent[1], timeExtent[1] + duration)
          ELSE Range(newStart, newStart + duration)
  ELSE NotCalled

\* setTimePreset(hours)
setTimePreset(hours) ==
  IF hours = 0 THEN Single(now)
  ELSE Range(now - (hours * hourMs) \div 2, now + (hours * hourMs) \div 2)

\* The presets of the buttons: 0 and durations whose half is shorter than
\* the half-width of the extent (0, 6, 24, 72 and 168 hours in the source).
PresetHours == {h \in 0 .. ExtentHours : Halves(h * hourMs)}

\* The selections the model follows: those that reach at most
\* MaxOutsideHours hours beyond the extent.
InWindow(sel) ==
  LET lo == timeExtent[1] - MaxOutsideHours * hourMs
      hi == timeExtent[2] + MaxOutsideHours * hourMs
  IN IF sel.mode = "single" THEN sel.single \in lo .. hi
     ELSE sel.range[1] \in lo .. hi /\ sel.range[2] \in lo .. hi

\* onTimeSelectionChange(sel) when the handler called it: setTimeSelection
\* and saveToStorage({ timeSelection }).
handleTimeSelectionChange(sel) ==
  IF sel = NotCalled
  THEN UNCHANGED <<timeSelection, storageItem>>
  ELSE /\ InWindow(sel)
       /\ timeSelection' = sel
       /\ storageItem' =
            saveToStorage(storageEnv, storageItem, now,
                          [timeSelection |-> selToJs(sel)]).item

\* What every input of the timeline leaves alone.
TimelineFrame == UNCHANGED <<storageEnv, now, lastCall, colorVars, fetchVars, batchVars, drawVars, geoVars, mapVars>>

\* Space, and the play/pause button.
TogglePlay(key) ==
  /\ isPlaying' = ~isPlaying
  /\ lastInput' = [key |-> key]
  /\ UNCHANGED <<timeSelection, isDragging, storageItem>>
  /\ TimelineFrame

\* ArrowLeft and ArrowRight, alone, with Shift, with Ctrl or Cmd.
KeyArrow(key, modifier) ==
  LET step == CASE modifier = "shift" -> dayMs
                [] modifier = "ctrl" -> 7 * dayMs
                [] OTHER -> hourMs
      deltaMs == IF key = "ArrowLeft" THEN -step ELSE step
  IN /\ handleTimeSelectionChange(moveTime(timeSelection, deltaMs))
     /\ lastInput' = [key |-> key]
     /\ UNCHANGED <<isPlaying, isDragging>>
     /\ TimelineFrame

\* ArrowUp, alone or with Shift.
KeyArrowUp(shift) ==
  /\ handleTimeSelectionChange(expandRange(timeSelection, IF shift THEN dayMs ELSE hourMs))
  /\ lastInput' = [key |-> "ArrowUp"]
  /\ UNCHANGED <<isPlaying, isDragging>>
  /\ TimelineFrame

\* ArrowDown, alone or with Shift.
KeyArrowDown(shift) ==
  LET r == contractRange(timeSelection, IF shift THEN dayMs ELSE hourMs)
  IN /\ handleTimeSelectionChange(r)
     /\ lastInput' = [key |-> "ArrowDown", called |-> r # NotCalled]
     /\ UNCHANGED <<isPlaying, isDragging>>
     /\ TimelineFrame

\* Home, and the skip-back button.
GoToStart(key) ==
  /\ handleTimeSelectionChange(goToStart(timeSelection))
  /\ lastInput' = [key |-> key]
  /\ UNCHANGED <<isPlaying, isDragging>>
  /\ TimelineFrame

\* End, and the skip-forward button.
GoToEnd(key) ==
  /\ handleTimeSelectionChange(goToEnd(timeSelection))
  /\ lastInput' = [key |-> key]
  /\ UNCHANGED <<isPlaying, isDragging>>
  /\ TimelineFrame

\* The selection has a midpoint on a tick (the model's resolution).
MidpointOnTick(sel) ==
  sel.mode = "range" => Halves(sel.range[1] + sel.range[2])

\* The 'r' key.
KeyR ==
  /\ MidpointOnTick(timeSelection)
  /\ handleTimeSelectionChange(toggleMode(timeSelection))
  /\ lastInput' = [key |-> "r"]
  /\ UNCHANGED <<isPlaying, isDragging>>
  /\ TimelineFrame

\* The "Single Point" button.
ClickSinglePoint ==
  /\ MidpointOnTick(timeSelection)
  /\ handleTimeSelectionChange(toSingleMode(timeSelection))
  /\ lastInput' = [key |-> "button"]
  /\ UNCHANGED <<isPlaying, isDragging>>
  /\ TimelineFrame

\* The "Time Range" button.
ClickTimeRange ==
  /\ handleTimeSelectionChange(toRangeMode(timeSelection))
  /\ lastInput' = [key |-> "button"]
  /\ UNCHANGED <<isPlaying, isDragging>>
  /\ TimelineFrame

\* handleMouseDown on a handle.
MouseDown(type) ==
  /\ isDragging' = type
  /\ lastInput' = [key |-> "pointer"]
  /\ UNCHANGED <<timeSelection, isPlaying, storageItem>>
  /\ TimelineFrame

\* The centre of a dragged or clicked range is on a tick.
HalfDurationOnTick(sel) ==
  sel.mode = "range" => Halves(sel.range[2] - sel.range[1])

\* handleMouseMove with the pointer at position p.
MouseMove(p) ==
  /\ isDragging # "null"
  /\ isDragging = "range" => HalfDurationOnTick(timeSelection)
  /\ handleTimeSelectionChange(dragTo(timeSelection, isDragging, positionToTime(p)))
  /\ lastInput' = [key |-> "pointer"]
  /\ UNCHANGED <<isPlaying, isDragging>>
  /\ TimelineFrame

\* handleMouseUp
MouseUp ==
  /\ isDragging # "null"
  /\ isDragging' = "null"
  /\ lastInput' = [key |-> "pointer"]
  /\ UNCHANGED <<timeSelection, isPlaying, storageItem>>
  /\ TimelineFrame

\* handleTimelineClick at position p.
TimelineClick(p) ==
  /\ isDragging = "null"
  /\ HalfDurationOnTick(timeSelection)
  /\ handleTimeSelectionChange(clickAt(timeSelection, positionToTime(p)))
  /\ lastInput' = [key |-> "pointer"]
  /\ UNCHANGED <<isPlaying, isDragging>>
  /\ TimelineFrame

\* The interval of the auto-play effect fires.
PlayTick ==
  /\ isPlaying
  /\ handleTimeSelectionChange(playStep(timeSelection))
  /\ lastInput' = [key |-> "timer"]
  /\ UNCHANGED <<isPlaying, isDragging>>
  /\ TimelineFrame

\* A preset button.
ClickPreset(hours) ==
  /\ handleTimeSelectionChange(setTimePreset(hours))
  /\ lastInput' = [key |-> "button"]
  /\ UNCHANGED <<isPlaying, isDragging>>
  /\ TimelineFrame

NextTimeline ==
  \/ \E key \in {"Space", "button"} : TogglePlay(key)
  \/ \E key \in {"ArrowLeft", "ArrowRight"}, modifier \in {"none", "shift", "ctrl"} :
       KeyArrow(key, modifier)
  \/ \E shift \in BOOLEAN : KeyArrowUp(shift)
  \/ \E shift \in BOOLEAN : KeyArrowDown(shift)
  \/ \E key \in {"Home", "button"} : GoToStart(key)
  \/ \E key \in {"End", "button"} : GoToEnd(key)
  \/ KeyR
  \/ ClickSinglePoint
  \/ ClickTimeRange
  \/ \E type \in {"start", "end", "single", "range"} : MouseDown(type)
  \/ \E p \in 0 .. PosSteps : MouseMove(p)
  \/ MouseUp
  \/ \E p \in 0 .. PosSteps : TimelineClick(p)
  \/ PlayTick
  \/ \E hours \in PresetHours : ClickPreset(hours)

\* The hours of the extent, and the selections inside it.
HoursIn(lo, hi) == {t \in lo .. hi : t % hourMs = 0}

\* What the storage key holds when the timeline is mounted: a state the
\* dashboard saved, with the selection sel.
StoredWith(sel) ==
  Stringify(Obj([polygons |-> Arr(<<>>), colorRules |-> Arr(<<>>),
                 selectedDataSource |-> Str("temperature"),
                 timeSelection |-> selToJs(sel),
                 mapView |-> MapView(407128, -740060, 10)]))

InitTimelineWith(sel) ==
  /\ timeSelection = sel
  /\ isPlaying = FALSE
  /\ isDragging = "null"
  /\ lastInput = [key |-> "none"]
  /\ storageEnv = "ok"
  /\ storageItem = StoredWith(sel)
  /\ lastCall = NoCall
  /\ ColorIdle
  /\ FetchIdle
  /\ BatchIdle
  /\ DrawIdle
  /\ GeoIdle
  /\ MapIdle

\* The timeline starts from the default selection (the instant of loading)
\* or from a stored selection inside the extent.
InitTimeline ==
  /\ now = StartTime
  /\ \E sel \in {Single(now)}
         \cup {Single(t) : t \in HoursIn(timeExtent[1], timeExtent[2])}
         \cup {Range(t, t + hourMs) : t \in HoursIn(timeExtent[1], timeExtent[2] - hourMs)} :
       InitTimelineWith(sel)

SpecTimeline == InitTimeline /\ [][NextTimeline]_vars

\* The timeline starts from a selection stored by a session up to
\* StoredAgeHours hours earlier, whose extent began that much earlier.
InitTimelineStored ==
  /\ now = StartTime
  /\ \E s \in HoursIn(timeExtent[1] - StoredAgeHours * hourMs, timeExtent[2]) :
       \/ InitTimelineWith(Single(s))
       \/ \E e \in HoursIn(s + hourMs, Min(s + 2 * hourMs, timeExtent[2])) :
            InitTimelineWith(Range(s, e))

SpecTimelineStored == InitTimelineStored /\ [][NextTimeline]_vars

\* ------------------------------------------------- claims on the timeline

InExtent(t) == timeExtent[1] <= t /\ t <= timeExtent[2]

\* C2: in every reachable state of the timeline that started from a
\* selection inside the extent, the selected instant, or both ends of the
\* selected range, lie within [now - 15 days, now + 15 days].
SelectionWithinExtent ==
  IF timeSelection.mode = "single"
  THEN InExtent(timeSelection.single)
  ELSE InExtent(timeSelection.range[1]) /\ InExtent(timeSelection.range[2])

\* C3: in every reachable state of the timeline in range mode, the start of
\* the selected range is at most its end, also when the range was loaded
\* from storage and lies outside the current extent.
RangeStartBeforeEnd ==
  timeSelection.mode = "range" => timeSelection.range[1] <= timeSelection.range[2]

\* C10: ArrowDown on a range [s, e] with the step c (an hour, a day with
\* Shift) yields [s + c, e - c] when e - c > s + c, and leaves the time
\* selection unchanged when the contraction would make end <= start.
ContractionYieldsOrRejects ==
  [][\A shift \in BOOLEAN :
       (KeyArrowDown(shift) /\ timeSelection.mode = "range") =>
         LET c == IF shift THEN dayMs ELSE hourMs
             s == timeSelection.range[1]
             e == timeSelection.range[2]
         IN IF e - c > s + c
            THEN timeSelection' = [mode |-> "range", range |-> <<s + c, e - c>>]
            ELSE timeSelection' = timeSelection]_vars

\* An ArrowDown has contracted a range that was wider than two steps.
ContractionWitness ==
  /\ lastInput = [key |-> "ArrowDown", called |-> TRUE]
  /\ timeSelection.mode = "range"
  /\ timeSelection.range[2] - timeSelection.range[1] >= hourMs

\* ------------------------------------------------------------ color rules

\* The neutral color getPolygonColor falls back to.
NeutralColor == "#gray-400"

\* The number a comparison reads in v: null reads as 0, what is no number
\* as NaN.
ToNumber(v) ==
  CASE v.t = "number" -> v
    [] v.t = "null" -> Num(0)
    [] OTHER -> NaN

\* a >= b
GreaterOrEqual(a, b) ==
  LET x == ToNumber(a)
      y == ToNumber(b)
  IN x.t = "number" /\ y.t = "number" /\ x.v >= y.v

\* a <= b
LessOrEqual(a, b) ==
  LET x == ToNumber(a)
      y == ToNumber(b)
  IN x.t = "number" /\ y.t = "number" /\ x.v <= y.v

\* a < b
Less(a, b) ==
  LET x == ToNumber(a)
      y == ToNumber(b)
  IN x.t = "number" /\ y.t = "number" /\ x.v < y.v

\* The first rule of the list, whatever its data source.
firstRule(rules, source) ==
  IF Len(rules.v) = 0 THEN Undefined ELSE rules.v[1]

\* colorRules.find(rule => rule.dataSource === selectedDataSource), from
\* index i on.
RECURSIVE findRule(_, _, _)
findRule(rules, source, i) ==
  IF i > Len(rules) THEN Undefined
  ELSE IF Get(rules[i], "dataSource") = Str(source) THEN rules[i]
  ELSE findRule(rules, source, i + 1)

\* currentRule
currentRule(rules, source) == findRule(rules.v, source, 1)

\* conditions.find(c => value >= c.min && value < c.max), from index i on.
RECURSIVE findCondition(_, _, _)
findCondition(conditions, value, i) ==
  IF i > Len(conditions) THEN Undefined
  ELSE IF GreaterOrEqual(value, Get(conditions[i], "min"))
            /\ Less(value, Get(conditions[i], "max"))
  THEN conditions[i]
  ELSE findCondition(conditions, value, i + 1)

\* getPolygonColor(polygon) of the map layer.
getPolygonColor(polygon, rules, source) ==
  LET weatherData == Get(polygon, "weatherData")
      rule == currentRule(rules, source)
      value == Get(weatherData, source)
      condition == findCondition(Get(rule, "conditions").v, value, 1)
      color == Get(condition, "color")
  IN IF ~Truthy(weatherData) THEN NeutralColor
     ELSE IF ~Truthy(rule) THEN NeutralColor
     ELSE IF TypeOf(value) # "number" THEN NeutralColor
     ELSE IF Truthy(color) THEN color.v ELSE NeutralColor

\* The sidebar's getPolygonColor reading the first rule of the list.
sidebarFirstRuleColor(polygon, rules, source) ==
  LET weatherData == Get(polygon, "weatherData")
      rule == firstRule(rules, source)
      value == Get(weatherData, source)
      condition == findCondition(Get(rule, "conditions").v, value, 1)
      color == Get(condition, "color")
  IN IF ~Truthy(weatherData) \/ ~Truthy(rule) THEN NeutralColor
     ELSE IF TypeOf(value) # "number" THEN NeutralColor
     ELSE IF Truthy(color) THEN color.v ELSE NeutralColor

\* getPolygonColor(polygon) of the sidebar, for the swatch of the polygon.
sidebarPolygonColor(polygon, rules, source) ==
  LET weatherData == Get(polygon, "weatherData")
      rule == currentRule(rules, source)
      value == Get(weatherData, source)
      condition == findCondition(Get(rule, "conditions").v, value, 1)
      color == Get(condition, "color")
  IN IF ~Truthy(weatherData) \/ ~Truthy(rule) THEN NeutralColor
     ELSE IF TypeOf(value) # "number" THEN NeutralColor
     ELSE IF Truthy(color) THEN color.v ELSE NeutralColor

\* colorRules.map(rule => rule.id === currentRule.id ? updatedRule : rule),
\* updatedRule being { ...currentRule, conditions }.
withConditions(rules, rule, conditions) ==
  LET updatedRule == Obj([rule.v EXCEPT !["conditions"] = Arr(conditions)])
  IN Arr([i \in DOMAIN rules.v |->
            IF Get(rules.v[i], "id") = Get(rule, "id") THEN updatedRule
            ELSE rules.v[i]])

\* { ...object, [field]: value }
withField(object, field, value) ==
  Obj([k \in DOMAIN object.v \cup {field} |->
         IF k = field THEN value ELSE object.v[k]])

\* The sequence without its element at index.
RemoveAt(seq, index) ==
  [i \in 1 .. Len(seq) - 1 |-> IF i < index THEN seq[i] ELSE seq[i + 1]]

\* The polygon on the map (the model follows one).
thePolygon(ps) == ps.v[1]

\* The effect that restyles the polygon's layer after a render.
restyle(ps, rules, source) == getPolygonColor(thePolygon(ps), rules, source)

\* updateColorRules(rules) of the dashboard.
updateColorRules(rules) ==
  /\ colorRules' = rules
  /\ storageItem' =
       saveToStorage(storageEnv, storageItem, now, [colorRules |-> rules]).item
  /\ fillColor' = restyle(polygons, rules, selectedDataSource)
  /\ UNCHANGED <<polygons, selectedDataSource>>

ColorFrame == UNCHANGED <<storageEnv, now, lastCall, timelineVars, fetchVars, batchVars, drawVars, geoVars, mapVars>>

\* The conditions of the rule the sidebar shows.
currentConditions == Get(currentRule(colorRules, selectedDataSource), "conditions").v

\* addColorCondition()
AddColorCondition ==
  /\ Truthy(currentRule(colorRules, selectedDataSource))
  /\ Len(currentConditions) < MaxConditions
  /\ updateColorRules(
       withConditions(colorRules, currentRule(colorRules, selectedDataSource),
                      Append(currentConditions,
                             Condition(0, 10, "#3b82f6", "New Condition"))))
  /\ ColorFrame

\* What the inputs of a condition hand to updateColorCondition: for min and
\* max parseFloat of the text (NaN when the field is emptied), for the
\* color the value of the color picker.
ConditionInputs ==
  [min |-> {NaN, Num(Units(0)), Num(Units(10))},
   max |-> {Num(Units(10)), Num(Units(20))},
   color |-> {Str("#3b82f6"), Str("#ef4444")}]

\* updateColorCondition(index, field, value); index counts from 1.
UpdateColorCondition(index, field, value) ==
  /\ Truthy(currentRule(colorRules, selectedDataSource))
  /\ index \in DOMAIN currentConditions
  /\ updateColorRules(
       withConditions(colorRules, currentRule(colorRules, selectedDataSource),
                      [currentConditions EXCEPT
                         ![index] = withField(currentConditions[index], field, value)]))
  /\ ColorFrame

\* removeColorCondition without its test of the number of conditions.
RemoveColorConditionNoGuard(index) ==
  /\ Truthy(currentRule(colorRules, selectedDataSource))
  /\ index \in DOMAIN currentConditions
  /\ updateColorRules(
       withConditions(colorRules, currentRule(colorRules, selectedDataSource),
                      RemoveAt(currentConditions, index)))
  /\ ColorFrame

\* removeColorCondition(index); index counts from 1.
RemoveColorCondition(index) ==
  /\ Truthy(currentRule(colorRules, selectedDataSource))
  /\ Len(currentConditions) > 1
  /\ index \in DOMAIN currentConditions
  /\ updateColorRules(
       withConditions(colorRules, currentRule(colorRules, selectedDataSource),
                      RemoveAt(currentConditions, index)))
  /\ ColorFrame

\* handleDataSourceChange(source)
HandleDataSourceChange(source) ==
  /\ selectedDataSource' = source
  /\ storageItem' =
       saveToStorage(storageEnv, storageItem, now,
                     [selectedDataSource |-> Str(source)]).item
  /\ fillColor' = restyle(polygons, colorRules, source)
  /\ UNCHANGED <<polygons, colorRules>>
  /\ ColorFrame

\* Metrics as fetchWeatherData returns them: the four metrics read v.
Metrics(v) ==
  Obj([temperature |-> v, humidity |-> v, windSpeed |-> v, precipitation |-> v])

\* The weather data handed to updatePolygonWeatherData.
WeatherInputs ==
  {Metrics(Num(n)) : n \in {Units(0), Units(10) - 1, Units(10), Units(20)}}

\* { ...p, weatherData }
withWeatherData(p, weatherData) == withField(p, "weatherData", weatherData)

\* updatePolygonWeatherData(polygonId, weatherData)
UpdatePolygonWeatherData(polygonId, weatherData) ==
  LET updated == Arr([i \in DOMAIN polygons.v |->
                        IF Get(polygons.v[i], "id") = Str(polygonId)
                        THEN withWeatherData(polygons.v[i], weatherData)
                        ELSE polygons.v[i]])
  IN /\ polygons' = updated
     /\ storageItem' =
          saveToStorage(storageEnv, storageItem, now, [polygons |-> updated]).item
     /\ fillColor' = restyle(updated, colorRules, selectedDataSource)
     /\ UNCHANGED <<colorRules, selectedDataSource>>
     /\ ColorFrame

\* The data sources of the selector the model follows: one with a rule and
\* one without.
SourceInputs == {"temperature", "humidity"}

NextColor ==
  \/ AddColorCondition
  \/ \E index \in 1 .. MaxConditions, field \in DOMAIN ConditionInputs :
       \E value \in ConditionInputs[field] : UpdateColorCondition(index, field, value)
  \/ \E index \in 1 .. MaxConditions : RemoveColorCondition(index)
  \/ \E source \in SourceInputs : HandleDataSourceChange(source)
  \/ \E weatherData \in WeatherInputs :
       UpdatePolygonWeatherData("polygon-1", weatherData)

\* The state a session left in storage: one polygon, drawn and not yet
\* measured or holding a metric that is no number, and a rule for the
\* temperature alone, with two conditions added in the sidebar.
StoredRules ==
  Arr(<< ColorRule("temp-default", "temperature", <<
           Condition(0, 10, "#3b82f6", "New Condition"),
           Condition(10, 20, "#ef4444", "New Condition") >>) >>)

StoredPolygons ==
  {Arr(<<StoredPolygon>>),
   Arr(<<withWeatherData(StoredPolygon,
                         Obj([temperature |-> Null, humidity |-> Num(Units(10))]))>>)}

InitColor ==
  /\ now = StartTime
  /\ storageEnv = "ok"
  /\ lastCall = NoCall
  /\ polygons \in StoredPolygons
  /\ colorRules = StoredRules
  /\ selectedDataSource = "temperature"
  /\ storageItem =
       Stringify(Obj([polygons |-> polygons, colorRules |-> colorRules,
                      selectedDataSource |-> Str(selectedDataSource),
                      timeSelection |-> SingleJs(StartTime),
                      mapView |-> MapView(407128, -740060, 10)]))
  /\ fillColor = restyle(polygons, colorRules, selectedDataSource)
  /\ TimelineIdle
  /\ FetchIdle
  /\ BatchIdle
  /\ DrawIdle
  /\ GeoIdle
  /\ MapIdle

SpecColor == InitColor /\ [][NextColor]_vars

\* --------------------------------------------- claims on color resolution

\* The polygon's weather data, the indices of the rules for the selected
\* data source, and the metric shown.
ShownWeather == Get(thePolygon(polygons), "weatherData")
ShownRules ==
  {i \in DOMAIN colorRules.v : colorRules.v[i].v.dataSource = Str(selectedDataSource)}
ShownValue == Get(ShownWeather, selectedDataSource)

\* The conditions of the rule for the selected data source.
ShownConditions ==
  colorRules.v[CHOOSE i \in ShownRules : \A j \in ShownRules : i <= j].v.conditions.v

\* The conditions whose half-open interval [min, max) holds the value x.
Containing(x) ==
  {i \in DOMAIN ShownConditions :
     LET c == ShownConditions[i].v
     IN /\ c.min.t = "number" /\ c.max.t = "number"
        /\ c.min.v <= x /\ x < c.max.v}

\* The polygon has metrics, the data source has a rule, and the metric is a
\* number some condition of the rule contains.
SomeConditionContains ==
  /\ ShownWeather.t = "object"
  /\ ShownRules # {}
  /\ ShownValue.t = "number"
  /\ Containing(ShownValue.v) # {}

\* C4: the polygon's color is the color of the first condition, in list
\* order, of the rule for the selected data source with min <= value < max.
FirstMatchHalfOpen ==
  SomeConditionContains =>
    LET first == CHOOSE i \in Containing(ShownValue.v) :
                   \A j \in Containing(ShownValue.v) : i <= j
    IN fillColor = ShownConditions[first].v.color.v

\* C4's case: with [0, 10) -> blue and [10, 20) -> red the value 10
\* resolves to red.
FirstMatchWitness ==
  /\ selectedDataSource = "temperature"
  /\ Len(ShownConditions) = 2
  /\ ShownConditions[1] = Condition(0, 10, "#3b82f6", "New Condition")
  /\ ShownConditions[2] = Condition(10, 20, "#ef4444", "New Condition")
  /\ ShownValue = Num(Units(10))
  /\ fillColor = "#ef4444"

\* C5: the map layer and the sidebar give the polygon the neutral color
\* exactly when it has no metrics, no rule exists for the selected data
\* source, the metric is no number, or no condition contains it; otherwise
\* they give it the color of a condition of the rule.
NeutralExactlyWhenNothingApplies ==
  /\ fillColor = NeutralColor <=> ~SomeConditionContains
  /\ SomeConditionContains =>
       \E i \in DOMAIN ShownConditions : fillColor = ShownConditions[i].v.color.v
  /\ sidebarPolygonColor(thePolygon(polygons), colorRules, selectedDataSource) = fillColor

\* C5's case: the polygon has a numeric temperature, the rule exists, and
\* no condition contains the value: the color is the neutral one.
NeutralWitness ==
  /\ selectedDataSource = "temperature"
  /\ ShownRules # {}
  /\ ShownValue = Num(Units(20))
  /\ Containing(ShownValue.v) = {}
  /\ fillColor = NeutralColor

\* ------------------------------------------------------- lib/weather-api

MetricNames == {"temperature", "humidity", "windSpeed", "precipitation"}

\* The text "YYYY-MM-DDTHH:00" of the wall-clock hour h.
HourLabel(h) == Str(h)

\* new Date(t).toISOString().slice(0, 13) + ':00': the hour of t in UTC.
targetTimeOf(t) == HourLabel(t \div hourMs)

\* new Date(label).getTime() in a browser offset hours ahead of UTC: a text
\* without a zone is read as local time.
timeMsOf(label, offset) == (label.v - offset) * hourMs

\* time.findIndex(t => t === targetTime), from index i on; 0 for -1.
RECURSIVE findIndex(_, _, _)
findIndex(time, targetTime, i) ==
  IF i > Len(time) THEN 0
  ELSE IF time[i] = targetTime THEN i
  ELSE findIndex(time, targetTime, i + 1)

\* timeIndices, in the order the code pushes them.
timeIndicesOf(time, startTime, endTime, offset) ==
  IF startTime = endTime
  THEN LET index == findIndex(time, targetTimeOf(startTime), 1)
       IN IF index # 0 THEN <<index>> ELSE <<>>
  ELSE LET InRange(i) == /\ timeMsOf(time[i], offset) >= startTime
                         /\ timeMsOf(time[i], offset) <= endTime
       IN SelectSeq([i \in DOMAIN time |-> i], InRange)

\* array[i], i counting from 1: undefined beyond the end.
At(array, i) == IF i \in DOMAIN array.v THEN array.v[i] ELSE Undefined

\* sum + (reading || 0): a sum of numbers, or, once a reading is a text
\* that is no number, a text whose quotient is NaN.
Plus(sum, reading) ==
  IF ~Truthy(reading) THEN sum
  ELSE IF sum.t = "number" /\ reading.t = "number" THEN Num(sum.v + reading.v)
  ELSE NaN

\* timeIndices.reduce((sum, i) => sum + (array[i] || 0), 0), the first n
\* indices taken.
RECURSIVE reduceSum(_, _, _)
reduceSum(array, timeIndices, n) ==
  IF n = 0 THEN Num(0)
  ELSE Plus(reduceSum(array, timeIndices, n - 1), At(array, timeIndices[n]))

\* sum / length cut off after one decimal place.
flooredAverage(sum, length) ==
  IF sum.t = "number" THEN Num((sum.v \div (length * 100)) * 100) ELSE NaN

\* Math.round(sum / length * 10) / 10, in thousandths.
roundedAverage(sum, length) ==
  IF sum.t = "number" THEN Num(MathRound(sum.v, length * 100) * 100) ELSE NaN

\* The arrays of data.hourly, by metric.
HourlyKey ==
  [temperature |-> "temperature_2m", humidity |-> "relative_humidity_2m",
   windSpeed |-> "wind_speed_10m", precipitation |-> "precipitation"]

\* The try block of fetchWeatherData from the parsed body on.
weatherDataOf(data, startTime, endTime, offset) ==
  IF data.t \in {"null", "undefined"} THEN Throw
  ELSE IF ~Truthy(Get(data, "hourly")) THEN Throw
  ELSE LET hourly == Get(data, "hourly")
           time == Get(hourly, "time")
           timeIndices == timeIndicesOf(time.v, startTime, endTime, offset)
       IN IF ~IsArray(time) THEN Throw
          ELSE IF Len(timeIndices) = 0 THEN Throw
          ELSE IF \E m \in MetricNames : ~IsArray(Get(hourly, HourlyKey[m])) THEN Throw
          ELSE Return(Obj([m \in MetricNames |->
                 roundedAverage(reduceSum(Get(hourly, HourlyKey[m]), timeIndices,
                                          Len(timeIndices)),
                                Len(timeIndices))]))

\* mockData, the four calls of Math.random() returning draws (thousandths).
mockDataOf(draws) ==
  Obj([temperature |-> Num(Units(15) + draws.temperature * 20),
       humidity |-> Num(Units(40) + draws.humidity * 40),
       windSpeed |-> Num(draws.windSpeed * 30),
       precipitation |-> Num(draws.precipitation * 10)])

\* The function without its catch block.
rethrow(r, draws) == r

\* The catch block: what was thrown is logged and mockData returned.
catchBlock(r, draws) ==
  IF r.threw THEN Return(mockDataOf(draws)) ELSE r

\* What Math.random() returns, in thousandths.
RandomDraws == {0, 500, 999}
DrawInputs == [MetricNames -> RandomDraws]

\* The hour the model starts in, and the arguments of the calls: an
\* instant, and ranges of an hour and of a day around it, in a browser on
\* UTC or an hour ahead of it.
StartHour == StartTime \div hourMs
FetchInputs ==
  {[startTime |-> a[1], endTime |-> a[2], offset |-> o] :
     a \in {<<StartTime, StartTime>>, <<StartTime - 1, StartTime + hourMs>>,
            <<StartTime - hourMs, StartTime + dayMs>>},
     o \in {0, 1}}

\* The readings of an hourly array: numbers, null for a gap, and a text.
Readings == {Num(15500), Num(15600), Null, Str("n/a")}

\* The hourly records of n hours from the hour b on, every metric reading
\* vals.
Hourly(b, n, vals) ==
  Obj([time |-> Arr([i \in 1 .. n |-> HourLabel(b + i - 1)]),
       temperature_2m |-> Arr(vals), relative_humidity_2m |-> Arr(vals),
       wind_speed_10m |-> Arr(vals), precipitation |-> Arr(vals)])

\* The bodies response.json() resolves with: null, an object without
\* hourly, hourly without time, hourly with the times alone, hourly whose
\* arrays are shorter than time, and whole records.
BodyInputs ==
  {Null, Obj([latitude |-> Num(407128)]),
   Obj([hourly |-> Obj([temperature_2m |-> Arr(<<Num(15500)>>)])]),
   Obj([hourly |-> Obj([time |-> Arr(<<HourLabel(StartHour)>>)])]),
   Obj([hourly |-> Hourly(StartHour, 1, <<>>)])}
  \cup UNION {{Obj([hourly |-> Hourly(b, n, vals)]) :
                 b \in {StartHour - 1, StartHour}, vals \in [1 .. n -> Readings]} :
              n \in 0 .. MaxHours}

FetchFrame ==
  UNCHANGED <<storageVars, now, timelineVars, colorVars, batchVars, drawVars, geoVars, mapVars>>

\* fetchWeatherData(latitude, longitude, startTime, endTime) is called and
\* runs to `await fetch(url)`.
CallFetch(args) ==
  /\ fetchPc \in {"idle", "resolved"}
  /\ fetchPc' = "fetch"
  /\ fetchArgs' = args
  /\ fetchResult' = <<>>
  /\ FetchFrame

\* How the promise of the call settles with the outcome r of its body.
Settle(r, data) ==
  /\ fetchPc' = IF r.threw THEN "rejected" ELSE "resolved"
  /\ fetchResult' = [data |-> data, ret |-> r.ret]

\* fetch() settles: it rejects (no network), or it resolves with a response
\* whose status is a success or not.  The function goes on to
\* `await response.json()` or to its catch block.
FetchSettles(outcome, draws) ==
  /\ fetchPc = "fetch"
  /\ IF outcome = "ok"
     THEN fetchPc' = "json" /\ UNCHANGED fetchResult
     ELSE Settle(catchBlock(Throw, draws), Undefined)
  /\ UNCHANGED fetchArgs
  /\ FetchFrame

\* response.json() rejects: the body is no JSON.
JsonRejects(draws) ==
  /\ fetchPc = "json"
  /\ Settle(catchBlock(Throw, draws), Undefined)
  /\ UNCHANGED fetchArgs
  /\ FetchFrame

\* response.json() resolves with data and the function runs to its end.
JsonResolves(data, draws) ==
  /\ fetchPc = "json"
  /\ Settle(catchBlock(weatherDataOf(data, fetchArgs.startTime, fetchArgs.endTime,
                                     fetchArgs.offset), draws), data)
  /\ UNCHANGED fetchArgs
  /\ FetchFrame

NextFetch ==
  \/ \E args \in FetchInputs : CallFetch(args)
  \/ \E outcome \in {"network error", "not ok", "ok"}, draws \in DrawInputs :
       FetchSettles(outcome, draws)
  \/ \E draws \in DrawInputs : JsonRejects(draws)
  \/ \E data \in BodyInputs, draws \in DrawInputs : JsonResolves(data, draws)

InitFetch ==
  /\ now = StartTime
  /\ storageEnv = "ok"
  /\ storageItem = NoItem
  /\ lastCall = NoCall
  /\ TimelineIdle
  /\ ColorIdle
  /\ FetchIdle
  /\ BatchIdle
  /\ DrawIdle
  /\ GeoIdle
  /\ MapIdle

SpecFetch == InitFetch /\ [][NextFetch]_vars

\* ------------------------------------------------ claims on the weather client

\* A reading of the body's hourly arrays is a text.
HoldsTextReading(data) ==
  \E m \in MetricNames :
    LET array == Get(Get(data, "hourly"), HourlyKey[m])
    IN IsArray(array) /\ \E i \in DOMAIN array.v : array.v[i].t = "string"

\* C1: fetchWeatherData never rejects: whatever fetch() and response.json()
\* do and whatever the body holds, the promise resolves with a record of
\* the four metrics, each of type number, and none is NaN unless a reading
\* of the body is a text.
FetchAlwaysResolves ==
  /\ fetchPc # "rejected"
  /\ fetchPc = "resolved" =>
       /\ fetchResult.ret.t = "object"
       /\ DOMAIN fetchResult.ret.v = MetricNames
       /\ \A m \in MetricNames : TypeOf(fetchResult.ret.v[m]) = "number"
       /\ (\E m \in MetricNames : fetchResult.ret.v[m] = NaN) =>
            HoldsTextReading(fetchResult.data)

\* C1's case: the body held hourly times none of which is in the selected
\* range, and the call resolved with the fallback metrics.
FetchAlwaysResolvesWitness ==
  /\ fetchPc = "resolved"
  /\ fetchArgs.startTime = fetchArgs.endTime
  /\ fetchResult.data = Obj([hourly |-> Hourly(StartHour - 1, 1, <<Num(15500)>>)])
  /\ fetchResult.ret = mockDataOf([m \in MetricNames |-> 500])

\* -------------------------------------- the timeline's weather batches

\* How many polygons are drawn before the model stops drawing.
MaxPolygons == 2

\* `polygon-${Date.now()}`
PolygonId(t) == Str(<<"polygon-", t>>)
\* `Area ${polygons.length + 1}`
AreaName(n) == Str(<<"Area ", n>>)

\* The ids a polygon drawn in the model can carry.
PolygonIds == {PolygonId(t) : t \in StartTime .. StartTime + MaxPolygons}

\* The points of a triangle clicked on the map.
TrianglePoints ==
  << Arr(<<Num(10), Num(10)>>), Arr(<<Num(20), Num(10)>>),
     Arr(<<Num(10), Num(20)>>) >>

\* The polygon completePolygon hands to onAddPolygon.
newPolygon(t, coords, n) ==
  Obj([id |-> PolygonId(t), coordinates |-> Arr(coords), name |-> AreaName(n),
       color |-> Str("#3b82f6")])

\* addPolygon: [...prev, newPolygon]; its weatherData is undefined.
appendPolygon(ps, polygon) == Arr(Append(ps.v, polygon))

\* The test of completePolygon's filter on a point [lat, lng].
isValidCoord(point) ==
  LET lat == point.v[1]
      lng == point.v[2]
  IN /\ TypeOf(lat) = "number" /\ TypeOf(lng) = "number"
     /\ lat.t # "NaN" /\ lng.t # "NaN"
     /\ lat.v >= -90 /\ lat.v <= 90 /\ lng.v >= -180 /\ lng.v <= 180

\* completePolygon without the filter.
allCoords(current) == current

\* currentPolygon.filter(...)
validCoords(current) == SelectSeq(current, isValidCoord)

\* completePolygon() at time t: the polygons after it.  It returns early
\* for fewer than three points, and for fewer than three valid ones.
completePolygon(current, ps, t) ==
  IF Len(current) < 3 THEN ps
  ELSE IF Len(validCoords(current)) < 3 THEN ps
  ELSE appendPolygon(ps, newPolygon(t, validCoords(current), Len(ps.v) + 1))

\* removePolygon: prev.filter(p => p.id !== polygonId)
filterPolygon(ps, polygonId) ==
  Arr(SelectSeq(ps.v, LAMBDA p : Get(p, "id") # polygonId))

\* updatePolygonWeatherData that overwrites only when the window the data
\* was fetched for is still the window selected.
mapWeatherDataIfCurrent(ps, polygonId, weatherData, fetchedFor, selected) ==
  IF fetchedFor = selected
  THEN Arr([i \in DOMAIN ps.v |->
              IF Get(ps.v[i], "id") = polygonId
              THEN withWeatherData(ps.v[i], weatherData) ELSE ps.v[i]])
  ELSE ps

\* updatePolygonWeatherData that adds a polygon for an id the collection
\* does not hold.
upsertWeatherData(ps, polygonId, weatherData, fetchedFor, selected) ==
  IF \E i \in DOMAIN ps.v : Get(ps.v[i], "id") = polygonId
  THEN Arr([i \in DOMAIN ps.v |->
              IF Get(ps.v[i], "id") = polygonId
              THEN withWeatherData(ps.v[i], weatherData) ELSE ps.v[i]])
  ELSE Arr(Append(ps.v, Obj([id |-> polygonId, weatherData |-> weatherData])))

\* updatePolygonWeatherData: prev.map(p => p.id === polygonId
\* ? { ...p, weatherData } : p).  The window the data was fetched for and
\* the window selected now play no part.
mapWeatherData(ps, polygonId, weatherData, fetchedFor, selected) ==
  Arr([i \in DOMAIN ps.v |->
         IF Get(ps.v[i], "id") = polygonId
         THEN withWeatherData(ps.v[i], weatherData) ELSE ps.v[i]])

\* The ids of the polygons of the collection.
IdsOf(ps) == {Get(ps.v[i], "id") : i \in DOMAIN ps.v}

\* The polygon of the collection with this id.
polygonById(ps, polygonId) ==
  ps.v[CHOOSE i \in DOMAIN ps.v : Get(ps.v[i], "id") = polygonId]

\* The polygon has weather metrics attached.
HasMetrics(p) == Get(p, "weatherData").t = "object"

\* The time windows the model selects.
Windows == {Single(StartTime), Single(StartTime + hourMs)}

\* fetchAllWeatherData's startTime and endTime, or its `else return`.
windowOf(sel) ==
  IF sel.mode = "single" /\ sel.single # 0 THEN <<sel.single, sel.single>>
  ELSE IF sel.mode = "range" THEN sel.range
  ELSE <<>>

\* What the weather service reports for a window: one reading per window.
serviceData(window) == Metrics(Num(Units(10) + window[1] - StartTime))

\* What Math.random() returned when the fallback data was made.
FallbackDraws ==
  [temperature |-> 500, humidity |-> 500, windSpeed |-> 500, precipitation |-> 500]

\* fetchWeatherData(centerLat, centerLng, startTime, endTime) once the
\* network answered or failed.
fetchWeatherData(window, failed) ==
  catchBlock(IF failed THEN Throw ELSE Return(serviceData(window)), FallbackDraws)

\* No run of fetchAllWeatherData in this place.
NoBatch == [selection |-> NotCalled]

\* The places of the runs of fetchAllWeatherData the model follows at a
\* time: a run takes the first free place and leaves it when it returns.
BatchSlots == {1, 2}

\* The places with a run of fetchAllWeatherData that has not returned.
InFlight(bs) == {s \in DOMAIN bs : bs[s] # NoBatch}

\* The run that fails as a whole when one fetch fails: no try around the
\* fetch of a polygon.
settleFailFast(batch, polygonId, failed) ==
  [batch EXCEPT !.pending = IF failed THEN {} ELSE @ \ {polygonId}]

\* A fetch of the run settled: the try/catch around each polygon's fetch
\* keeps a failure from the other promises of Promise.all.
settle(batch, polygonId, failed) ==
  [batch EXCEPT !.pending = @ \ {polygonId}]

\* The run fetchAllWeatherData starts: setIsLoading(true) and one fetch for
\* each polygon, for the time selection of this render.
newBatch(ps, sel) ==
  [selection |-> sel, ids |-> IdsOf(ps),
   pending |-> IF windowOf(sel) = <<>> THEN {} ELSE IdsOf(ps)]

\* useEffect(() => { fetchAllWeatherData() }, [fetchAllWeatherData]) after a
\* render with new polygons or a new timeSelection, whoever set them:
\* fetchAllWeatherData returns at once for no polygons.  A run beyond
\* the places of BatchSlots is not followed.
effect(bs, loading, ps, sel) ==
  IF Len(ps.v) = 0 \/ InFlight(bs) = DOMAIN bs
  THEN [batches |-> bs, isLoading |-> loading]
  ELSE LET s == CHOOSE x \in DOMAIN bs \ InFlight(bs) :
                  \A y \in DOMAIN bs \ InFlight(bs) : x <= y
       IN [batches |-> [bs EXCEPT ![s] = newBatch(ps, sel)], isLoading |-> TRUE]

\* A place is free for the run an input of the user starts.
CanFollow(ps) == Len(ps.v) = 0 \/ InFlight(batches) # DOMAIN batches

BatchFrame ==
  UNCHANGED <<storageEnv, lastCall, isPlaying, isDragging, lastInput, colorRules,
              selectedDataSource, fillColor, fetchVars, drawVars, geoVars, mapVars>>

\* completePolygon for a triangle drawn on the map (the drawing itself is
\* followed by SpecDrawing): addPolygon, and the effect of the render that
\* follows.
DrawPolygon ==
  LET updated == completePolygon(TrianglePoints, polygons, now + 1)
      e == effect(batches, isLoading, updated, timeSelection)
  IN /\ now < StartTime + MaxPolygons
     /\ CanFollow(updated)
     /\ now' = now + 1
     /\ polygons' = updated
     /\ storageItem' =
          saveToStorage(storageEnv, storageItem, now + 1, [polygons |-> updated]).item
     /\ batches' = e.batches
     /\ isLoading' = e.isLoading
     /\ UNCHANGED timeSelection
     /\ BatchFrame

\* removePolygon(polygonId), and the effect of the render that follows.
RemovePolygon(polygonId) ==
  LET updated == filterPolygon(polygons, polygonId)
      e == effect(batches, isLoading, updated, timeSelection)
  IN /\ polygonId \in IdsOf(polygons)
     /\ CanFollow(updated)
     /\ polygons' = updated
     /\ storageItem' =
          saveToStorage(storageEnv, storageItem, now, [polygons |-> updated]).item
     /\ batches' = e.batches
     /\ isLoading' = e.isLoading
     /\ UNCHANGED <<now, timeSelection>>
     /\ BatchFrame

\* The user selects a time window, and the effect of the render that follows.
SelectWindow(sel) ==
  LET e == effect(batches, isLoading, polygons, sel)
  IN /\ CanFollow(polygons)
     /\ handleTimeSelectionChange(sel)
     /\ batches' = e.batches
     /\ isLoading' = e.isLoading
     /\ UNCHANGED <<now, polygons>>
     /\ BatchFrame

\* A fetch of the run in place s settled: fetchWeatherData returns (the
\* service's data, or the fallback after a failure),
\* onUpdatePolygonWeatherData sets the polygons and saves them, and the
\* effect of the render that follows runs.  Had fetchWeatherData thrown,
\* the catch of the polygon's promise would log and leave the polygons.
PolygonFetchSettles(s, polygonId, failed) ==
  /\ s \in InFlight(batches)
  /\ polygonId \in batches[s].pending
  /\ LET r == fetchWeatherData(windowOf(batches[s].selection), failed)
         settled == [batches EXCEPT ![s] = settle(@, polygonId, failed)]
     IN IF r.threw
        THEN /\ batches' = settled
             /\ UNCHANGED <<polygons, storageItem, isLoading>>
        ELSE LET updated == mapWeatherData(polygons, polygonId, r.ret,
                                           batches[s].selection, timeSelection)
                 e == effect(settled, isLoading, updated, timeSelection)
             IN /\ polygons' = updated
                /\ storageItem' =
                     saveToStorage(storageEnv, storageItem, now,
                                   [polygons |-> updated]).item
                /\ batches' = e.batches
                /\ isLoading' = e.isLoading
  /\ UNCHANGED <<now, timeSelection>>
  /\ BatchFrame

\* await Promise.all(promises) returned for the run in place s: every
\* promise settled; finally setIsLoading(false).
BatchReturns(s) ==
  /\ s \in InFlight(batches)
  /\ batches[s].pending = {}
  /\ batches' = [batches EXCEPT ![s] = NoBatch]
  /\ isLoading' = FALSE
  /\ UNCHANGED <<now, timeSelection, polygons, storageItem>>
  /\ BatchFrame

NextBatches ==
  \/ DrawPolygon
  \/ \E polygonId \in PolygonIds : RemovePolygon(polygonId)
  \/ \E sel \in Windows : SelectWindow(sel)
  \/ \E s \in BatchSlots, polygonId \in PolygonIds, failed \in BOOLEAN :
       PolygonFetchSettles(s, polygonId, failed)
  \/ \E s \in BatchSlots : BatchReturns(s)

\* The dashboard after it loaded a state with no polygons; the timeline
\* mounted, and its effect returned at once.
InitBatches ==
  /\ now = StartTime
  /\ storageEnv = "ok"
  /\ storageItem = Stringify(Obj(defaultState(StartTime)))
  /\ lastCall = NoCall
  /\ TimelineIdle
  /\ ColorIdle
  /\ FetchIdle
  /\ isLoading = FALSE
  /\ batches = [s \in BatchSlots |-> NoBatch]
  /\ DrawIdle
  /\ GeoIdle
  /\ MapIdle

SpecBatches == InitBatches /\ [][NextBatches]_vars

\* The fetch of the run in place s for this polygon has not settled.
Pending(s, polygonId) == s \in InFlight(batches) /\ polygonId \in batches[s].pending

\* A run whose promises all settled goes on to its finally block, and the
\* network settles every fetch: none stays pending for ever.  (A pending
\* fetch stays pending until PolygonFetchSettles takes it, which is enabled
\* all the while, so this is weak fairness of PolygonFetchSettles for each
\* place and polygon.)
FairBatches ==
  /\ \A s \in BatchSlots : WF_vars(BatchReturns(s))
  /\ \A s \in BatchSlots, polygonId \in PolygonIds : []<>~Pending(s, polygonId)

SpecBatchesFair == SpecBatches /\ FairBatches

\* The weather data of the polygon of the collection with this id.
weatherDataOfPolygon(ps, polygonId) == Get(polygonById(ps, polygonId), "weatherData")

\* A fetch of some run has not settled.
FetchInFlight == \E s \in InFlight(batches) : batches[s].pending # {}

\* C11: whenever the loading indicator is off, no weather fetch is in
\* flight, also when a second run started before the first one returned.
IndicatorOffMeansNoFetch == ~isLoading => ~FetchInFlight

\* C12: every polygon of the collection that has no weather metrics gets
\* them (the service's or the fallback's) or is removed, when every fetch
\* settles, whether it succeeds or fails.
EveryPolygonGetsMetrics ==
  \A polygonId \in PolygonIds :
    (polygonId \in IdsOf(polygons)
       /\ ~HasMetrics(polygonById(polygons, polygonId)))
    ~> (polygonId \notin IdsOf(polygons)
          \/ HasMetrics(polygonById(polygons, polygonId)))

\* Two polygons were drawn and both have metrics: one the service's, the
\* other the fallback's of a fetch that failed.
EveryPolygonGetsMetricsWitness ==
  /\ Len(polygons.v) = 2
  /\ \E w \in Windows :
       weatherDataOfPolygon(polygons, Get(polygons.v[1], "id")) = serviceData(windowOf(w))
  /\ weatherDataOfPolygon(polygons, Get(polygons.v[2], "id")) = mockDataOf(FallbackDraws)

\* C15: when the fetch for one polygon of a run fails, the fetches of the
\* run for the other polygons stay in flight, and each of them, when it
\* settles, sets the metrics of its polygon if the polygon is still in the
\* collection; the run returns, clearing the indicator, only when all have
\* settled.
FailureSparesSiblings ==
  [][\A s \in BatchSlots, polygonId \in PolygonIds :
       /\ PolygonFetchSettles(s, polygonId, TRUE)
            => /\ batches'[s].pending = batches[s].pending \ {polygonId}
               /\ polygonId \in IdsOf(polygons)
                    => weatherDataOfPolygon(polygons', polygonId)
                         = mockDataOf(FallbackDraws)
       /\ (PolygonFetchSettles(s, polygonId, FALSE)
             /\ polygonId \in IdsOf(polygons))
            => weatherDataOfPolygon(polygons', polygonId)
                 = serviceData(windowOf(batches[s].selection))
       /\ BatchReturns(s) => batches[s].pending = {} /\ ~isLoading'
    ]_vars

\* Every fetch of a run for two polygons settled, it is the only run, and
\* the polygons show one the fallback's data of a fetch that failed and the
\* other the service's data for the run's window.
FailureSparesSiblingsWitness ==
  \E s \in InFlight(batches) :
    /\ InFlight(batches) = {s}
    /\ batches[s].pending = {}
    /\ batches[s].ids = IdsOf(polygons)
    /\ Len(polygons.v) = 2
    /\ weatherDataOfPolygon(polygons, Get(polygons.v[1], "id"))
         = mockDataOf(FallbackDraws)
    /\ weatherDataOfPolygon(polygons, Get(polygons.v[2], "id"))
         = serviceData(windowOf(batches[s].selection))

ResultStartsNoBatch ==
  [][\A s \in BatchSlots, polygonId \in PolygonIds, failed \in BOOLEAN :
       PolygonFetchSettles(s, polygonId, failed)
         => InFlight(batches') \subseteq InFlight(batches)
    ]_vars

\* ------------------------------------------- the store mirrors the state

\* The field of the state held under the storage key, as JSON.parse reads it.
Persisted(field) ==
  IF storageItem.kind = "json" THEN Get(storageItem.val, field) ELSE Undefined

\* C13: after every mutation of the dashboard, with the writes to the
\* storage going through, the polygons, the color rules, the data source
\* and the time selection held under the storage key equal the ones in
\* memory.
PersistedMirrorsMemory ==
  /\ Persisted("polygons") = polygons
  /\ Persisted("colorRules") = colorRules
  /\ Persisted("selectedDataSource") = Str(selectedDataSource)
  /\ Persisted("timeSelection") = selToJs(timeSelection)

\* ------------------------------------------------- drawing a polygon

\* How many points are clicked before the model stops the drawing.
MaxPoints == 3

\* What e.latlng holds at a click: points of the map, points of a copy of
\* the world beside it or beyond the poles, and a point that is no number.
PointInputs ==
  {Arr(<<Num(40), Num(-74)>>), Arr(<<Num(41), Num(-73)>>),
   Arr(<<Num(91), Num(-74)>>), Arr(<<Num(40), Num(-181)>>),
   Arr(<<NaN, Num(-74)>>)}

DrawFrame ==
  UNCHANGED <<storageEnv, lastCall, timelineVars, colorRules, selectedDataSource,
              fillColor, fetchVars, batchVars, geoVars, mapVars>>

\* The map's click handler in drawing mode: [...prev, [lat, lng]].
MapClick(point) ==
  /\ Len(currentPolygon) < MaxPoints
  /\ TypeOf(point.v[1]) = "number" /\ TypeOf(point.v[2]) = "number"
  /\ currentPolygon' = Append(currentPolygon, point)
  /\ UNCHANGED <<completed, now, polygons, storageItem>>
  /\ DrawFrame

\* completePolygon(): the model follows one drawing to its end, at the
\* instant after StartTime.  A call that returns early leaves the drawing
\* and the polygons; a call that goes through hands the polygon to
\* addPolygon, which saves the polygons, and clears the drawing.
CompletePolygon ==
  LET updated == completePolygon(currentPolygon, polygons, now + 1)
  IN /\ now = StartTime
     /\ IF updated = polygons
        THEN /\ completed' = "refused"
             /\ UNCHANGED <<currentPolygon, now, polygons, storageItem>>
        ELSE /\ completed' = "added"
             /\ currentPolygon' = <<>>
             /\ now' = now + 1
             /\ polygons' = updated
             /\ storageItem' =
                  saveToStorage(storageEnv, storageItem, now + 1,
                                [polygons |-> updated]).item
     /\ DrawFrame

\* cancelPolygon()
CancelPolygon ==
  /\ currentPolygon' = <<>>
  /\ UNCHANGED <<completed, now, polygons, storageItem>>
  /\ DrawFrame

NextDrawing ==
  \/ \E point \in PointInputs : MapClick(point)
  \/ CompletePolygon
  \/ CancelPolygon

\* A polygon drawn a day before.
EarlierPolygon == newPolygon(StartTime - dayMs, TrianglePoints, 1)

\* The dashboard loaded no polygon or one; nothing is drawn yet.
InitDrawing ==
  /\ now = StartTime
  /\ storageEnv = "ok"
  /\ lastCall = NoCall
  /\ polygons \in {Arr(<<>>), Arr(<<EarlierPolygon>>)}
  /\ colorRules = Arr(<<>>)
  /\ selectedDataSource = "temperature"
  /\ fillColor = "none"
  /\ storageItem =
       Stringify(Obj([polygons |-> polygons, colorRules |-> DefaultColorRules,
                      selectedDataSource |-> Str("temperature"),
                      timeSelection |-> SingleJs(StartTime),
                      mapView |-> MapView(407128, -740060, 10)]))
  /\ TimelineIdle
  /\ FetchIdle
  /\ BatchIdle
  /\ currentPolygon = <<>>
  /\ completed = "none"
  /\ GeoIdle
  /\ MapIdle

SpecDrawing == InitDrawing /\ [][NextDrawing]_vars

\* The point is a pair of numbers, its latitude in [-90, 90] and its
\* longitude in [-180, 180].
InRange(point) ==
  /\ point.v[1].t = "number" /\ point.v[1].v \in -90 .. 90
  /\ point.v[2].t = "number" /\ point.v[2].v \in -180 .. 180

\* The points of the drawing that are in range, in their order.
InRangePoints(current) == SelectSeq(current, InRange)

\* The polygons the drawing added: those with the id of its instant.
Drawn(ps) == {i \in DOMAIN ps.v : Get(ps.v[i], "id") = PolygonId(StartTime + 1)}

PlaybackSelections ==
  LET lo == timeExtent[1] - MaxOutsideHours * hourMs
      hi == timeExtent[2] + MaxOutsideHours * hourMs
  IN {Single(t) : t \in lo .. hi}
       \cup UNION {{Range(s, e) :
                       e \in Max(lo, s - MaxOutsideHours * hourMs)
                              .. Min(hi, s + 2 * fifteenDaysMs)} :
                    s \in lo .. hi}

\* Play was pressed; no further input arrives.
InitPlayback ==
  /\ now = StartTime
  /\ \E sel \in PlaybackSelections :
       /\ timeSelection = sel
       /\ storageItem = StoredWith(sel)
  /\ isPlaying = TRUE
  /\ isDragging = "null"
  /\ lastInput = [key |-> "Space"]
  /\ storageEnv = "ok"
  /\ lastCall = NoCall
  /\ ColorIdle
  /\ FetchIdle
  /\ BatchIdle
  /\ DrawIdle
  /\ GeoIdle
  /\ MapIdle

NextPlayback == PlayTick

\* setInterval fires every second while isPlaying.
SpecPlayback == InitPlayback /\ [][NextPlayback]_vars /\ WF_vars(PlayTick)

\* Where the selection begins.
SelectionStart ==
  IF timeSelection.mode = "single" THEN timeSelection.single
  ELSE timeSelection.range[1]

\* Where the selection ends.
SelectionEnd ==
  IF timeSelection.mode = "single" THEN timeSelection.single
  ELSE timeSelection.range[2]

\* C16: while playback is on, a tick moves the selection one hour later and
\* keeps its duration, unless that would carry its end past the upper bound
\* of the extent: then the selection is set to begin at the lower bound,
\* with the same duration.  The tick leaves playback on, and with the timer
\* ticking the selection is at the lower bound again and again.
PlaybackLoops ==
  /\ [][PlayTick =>
          /\ isPlaying'
          /\ timeSelection'.mode = timeSelection.mode
          /\ SelectionEnd' - SelectionStart' = SelectionEnd - SelectionStart
          /\ SelectionStart' =
               IF SelectionEnd + hourMs > timeExtent[2] THEN timeExtent[1]
               ELSE SelectionStart + hourMs
       ]_vars
  /\ []<>(SelectionStart = timeExtent[1])

\* The timer wrapped a range around: it begins at the lower bound, after a
\* tick.
PlaybackWrappedWitness ==
  /\ isPlaying
  /\ lastInput = [key |-> "timer"]
  /\ timeSelection.mode = "range"
  /\ timeSelection.range[1] = timeExtent[1]
  /\ timeSelection.range[2] > timeExtent[1]

\* ------------------------------------------------------ lib/leaflet-utils

\* Coordinates are pairs <<lat, lng>> of integers, and the arithmetic is
\* exact where the source computes in floating point.

\* How many vertices the polygons handed to the functions have at most.
MaxVertices == 4

\* kmPerDegree = 111.32, in hundredths of a kilometre.
kmPerDegree == 11132

\* The coordinates a vertex takes.
GridCoordinates == {0, 1, 2}

GridPoints == GridCoordinates \X GridCoordinates

\* The coordinate lists of n different vertices.
VertexLists(n) ==
  {c \in [1 .. n -> GridPoints] : \A i, k \in 1 .. n : i # k => c[i] # c[k]}

\* The coordinate lists the functions are called with.
CoordinateInputs == UNION {VertexLists(n) : n \in 0 .. MaxVertices}

\* Math.abs
Abs(x) == IF x < 0 THEN -x ELSE x

\* j = (i + 1) % n, counting from 1.
nextIndex(i, n) == (i % n) + 1

\* The loop of calculatePolygonArea from i on: what it adds to area.
RECURSIVE shoelaceFrom(_, _)
shoelaceFrom(coordinates, i) ==
  IF i > Len(coordinates) THEN 0
  ELSE LET j == nextIndex(i, Len(coordinates))
       IN coordinates[i][1] * coordinates[j][2]
            - coordinates[j][1] * coordinates[i][2]
            + shoelaceFrom(coordinates, i + 1)

\* calculatePolygonArea without Math.abs.
calculatePolygonAreaSigned(coordinates) ==
  IF Len(coordinates) < 3 THEN 0
  ELSE shoelaceFrom(coordinates, 1) * kmPerDegree * kmPerDegree

\* calculatePolygonArea(coordinates).  The result is counted in units of
\* 1 / 20000 km^2, which keeps Math.abs(area) / 2 and 111.32 * 111.32 whole.
calculatePolygonArea(coordinates) ==
  IF Len(coordinates) < 3 THEN 0
  ELSE Abs(shoelaceFrom(coordinates, 1)) * kmPerDegree * kmPerDegree

\* The loop of isPointInPolygon that starts with j = 0: the edge from the
\* last vertex to the first is never looked at.
previousIndexNoWrap(i, n) == IF i = 1 THEN 1 ELSE i - 1

\* for (let i = 0, j = polygon.length - 1; i < polygon.length; j = i++),
\* counting from 1: the j of the pass with this i.
previousIndex(i, n) == IF i = 1 THEN n ELSE i - 1

\* The test of the loop of isPointInPolygon for the edge from vertex j to
\* vertex i.  lat < (latj - lati) * (lng - lngi) / (lngj - lngi) + lati is
\* compared after multiplying by lngj - lngi, which is not 0 when the first
\* half of the test holds.
edgeCrossed(point, vi, vj) ==
  LET lat == point[1]
      lng == point[2]
      lati == vi[1]
      lngi == vi[2]
      latj == vj[1]
      lngj == vj[2]
  IN /\ (lngi > lng) # (lngj > lng)
     /\ IF lngj - lngi > 0
        THEN (lat - lati) * (lngj - lngi) < (latj - lati) * (lng - lngi)
        ELSE (lat - lati) * (lngj - lngi) > (latj - lati) * (lng - lngi)

\* isPointInPolygon(point, polygon): inside is toggled once for every pass
\* whose test holds.
isPointInPolygon(point, polygon) ==
  LET n == Len(polygon)
      toggles == {i \in 1 .. n :
                    edgeCrossed(point, polygon[i], polygon[previousIndex(i, n)])}
  IN Cardinality(toggles) % 2 = 1

\* The polygon with every coordinate multiplied by k.
Scaled(polygon, k) ==
  [i \in DOMAIN polygon |-> <<k * polygon[i][1], k * polygon[i][2]>>]

RECURSIVE sumFrom(_, _, _)
sumFrom(polygon, axis, i) ==
  IF i > Len(polygon) THEN 0 ELSE polygon[i][axis] + sumFrom(polygon, axis, i + 1)

\* The mean of the vertices; whole for the polygons of PointInPolygonInputs.
Centroid(polygon) ==
  <<sumFrom(polygon, 1, 1) \div Len(polygon), sumFrom(polygon, 2, 1) \div Len(polygon)>>

\* The polygons isPointInPolygon is called with: the coordinate lists of
\* three vertices and more, in units of a sixtieth, which keeps the mean of
\* up to six vertices whole.
PointInPolygonInputs ==
  {Scaled(c, 60) : c \in UNION {VertexLists(n) : n \in 3 .. MaxVertices}}

GeoFrame ==
  UNCHANGED <<storageVars, now, timelineVars, colorVars, fetchVars, batchVars, drawVars,
              mapVars>>

\* calculatePolygonArea(coordinates) returns.
AreaReturns ==
  /\ geoArgs.fn = "calculatePolygonArea"
  /\ geoResult = <<>>
  /\ geoResult' = <<calculatePolygonArea(geoArgs.coordinates)>>
  /\ UNCHANGED geoArgs
  /\ GeoFrame

\* isPointInPolygon(point, polygon) returns.
PointInPolygonReturns ==
  /\ geoArgs.fn = "isPointInPolygon"
  /\ geoResult = <<>>
  /\ geoResult' = <<isPointInPolygon(geoArgs.point, geoArgs.polygon)>>
  /\ UNCHANGED geoArgs
  /\ GeoFrame

NextGeometry ==
  \/ AreaReturns
  \/ PointInPolygonReturns

\* A call of calculatePolygonArea, or a call of isPointInPolygon with the
\* mean of the polygon's vertices.
InitGeometry ==
  /\ now = StartTime
  /\ storageEnv = "ok"
  /\ storageItem = NoItem
  /\ lastCall = NoCall
  /\ TimelineIdle
  /\ ColorIdle
  /\ FetchIdle
  /\ BatchIdle
  /\ DrawIdle
  /\ MapIdle
  /\ geoArgs \in
       {[fn |-> "calculatePolygonArea", coordinates |-> c] : c \in CoordinateInputs}
         \cup {[fn |-> "isPointInPolygon", point |-> Centroid(p), polygon |-> p] :
                 p \in PointInPolygonInputs}
  /\ geoResult = <<>>

SpecGeometry == InitGeometry /\ [][NextGeometry]_vars

\* Twice the area of the triangle o, a, b, signed by its orientation.
Cross(o, a, b) ==
  (a[1] - o[1]) * (b[2] - o[2]) - (a[2] - o[2]) * (b[1] - o[1])

\* The turn the polygon takes at the vertex after vertex i.
Turn(polygon, i) ==
  LET n == Len(polygon)
  IN Cross(polygon[i], polygon[nextIndex(i, n)],
           polygon[nextIndex(nextIndex(i, n), n)])

\* c lies on the segment from a to b, the three being on one line.
Between(a, b, c) ==
  /\ c[1] >= Min(a[1], b[1]) /\ c[1] <= Max(a[1], b[1])
  /\ c[2] >= Min(a[2], b[2]) /\ c[2] <= Max(a[2], b[2])

Sign(x) == IF x > 0 THEN 1 ELSE IF x < 0 THEN -1 ELSE 0

\* The segments from a to b and from c to d have a point in common.
SegmentsMeet(a, b, c, d) ==
  LET d1 == Sign(Cross(c, d, a))
      d2 == Sign(Cross(c, d, b))
      d3 == Sign(Cross(a, b, c))
      d4 == Sign(Cross(a, b, d))
  IN \/ d1 * d2 < 0 /\ d3 * d4 < 0
     \/ d1 = 0 /\ Between(c, d, a)
     \/ d2 = 0 /\ Between(c, d, b)
     \/ d3 = 0 /\ Between(a, b, c)
     \/ d4 = 0 /\ Between(a, b, d)

\* No two edges of the polygon meet except neighbours at their common
\* vertex, and no vertex lies straight between its neighbours or folds back.
NonSelfIntersecting(polygon) ==
  LET n == Len(polygon)
  IN /\ n >= 3
     /\ \A i \in 1 .. n : Turn(polygon, i) # 0
     /\ \A i, k \in 1 .. n :
          (k # i /\ k # nextIndex(i, n) /\ i # nextIndex(k, n))
            => ~SegmentsMeet(polygon[i], polygon[nextIndex(i, n)],
                             polygon[k], polygon[nextIndex(k, n)])

\* The polygon turns the same way at every vertex.
StrictlyConvex(polygon) ==
  /\ NonSelfIntersecting(polygon)
  /\ \/ \A i \in 1 .. Len(polygon) : Turn(polygon, i) > 0
     \/ \A i \in 1 .. Len(polygon) : Turn(polygon, i) < 0

\* isPointInPolygon returned for the mean of the polygon's vertices.
CentroidTested ==
  /\ geoArgs # <<>>
  /\ geoArgs.fn = "isPointInPolygon"
  /\ geoResult # <<>>

\* C17 as stated: isPointInPolygon returns true for the mean of the
\* vertices of every polygon of three vertices and more that does not
\* intersect itself, convex or concave.
CentroidInsideEverySimplePolygon ==
  (CentroidTested /\ NonSelfIntersecting(geoArgs.polygon)) => geoResult[1]

\* C17: isPointInPolygon returns true for the mean of the vertices of every
\* strictly convex polygon of three vertices and more.
CentroidInsideConvexPolygon ==
  (CentroidTested /\ StrictlyConvex(geoArgs.polygon)) => geoResult[1]

\* The function returned true for the mean of the vertices of a convex
\* quadrilateral.
CentroidInsideWitness ==
  /\ CentroidTested
  /\ StrictlyConvex(geoArgs.polygon)
  /\ Len(geoArgs.polygon) = 4
  /\ geoResult[1]

\* Twice the area of the triangles that fan out from the first vertex of a
\* convex polygon.
RECURSIVE fanFrom(_, _)
fanFrom(polygon, i) ==
  IF i + 1 > Len(polygon) THEN 0
  ELSE Abs(Cross(polygon[1], polygon[i], polygon[i + 1])) + fanFrom(polygon, i + 1)

\* calculatePolygonArea returned.
AreaComputed ==
  /\ geoArgs # <<>>
  /\ geoArgs.fn = "calculatePolygonArea"
  /\ geoResult # <<>>

\* C18: calculatePolygonArea returns 0 for fewer than three vertices, and
\* for a convex polygon the area of the polygon (half the sum over the
\* triangles of its fan) times 111.32 * 111.32.
AreaOfConvexPolygon ==
  AreaComputed =>
    /\ Len(geoArgs.coordinates) < 3 => geoResult[1] = 0
    /\ StrictlyConvex(geoArgs.coordinates)
         => geoResult[1] = fanFrom(geoArgs.coordinates, 2) * kmPerDegree * kmPerDegree

\* The function returned the area of a convex quadrilateral whose vertices
\* run clockwise.
AreaOfConvexWitness ==
  /\ AreaComputed
  /\ Len(geoArgs.coordinates) = 4
  /\ StrictlyConvex(geoArgs.coordinates)
  /\ Turn(geoArgs.coordinates, 1) < 0
  /\ geoResult[1] > 0

\* ------------------------------------- claims on the records averaged

\* The hourly times of the body the call read, <<>> when it holds none.
TimesRead ==
  LET time == Get(Get(fetchResult.data, "hourly"), "time")
  IN IF IsArray(time) THEN time.v ELSE <<>>

\* The indices the call averaged over, as a set.
AveragedRecords ==
  LET timeIndices == timeIndicesOf(TimesRead, fetchArgs.startTime, fetchArgs.endTime,
                                   fetchArgs.offset)
  IN {timeIndices[k] : k \in DOMAIN timeIndices}

\* The instant the hourly record labelled label is of, the label read as
\* the comparison with toISOString() reads it.
RecordTime(label) == label.v * hourMs

\* The first record of the hour of t, when there is one.
FirstRecordOfHour(t) ==
  LET matching == {i \in DOMAIN TimesRead :
                     RecordTime(TimesRead[i]) = (t \div hourMs) * hourMs}
  IN {i \in matching : \A j \in matching : i <= j}

\* C21: the records fetchWeatherData averages are, for startTime = endTime,
\* the first record whose time is startTime truncated to the hour and none
\* when no record is of that hour, and for startTime < endTime exactly the
\* records whose time lies in [startTime, endTime], both ends included.
AveragedRecordsAreTheSelected ==
  (fetchPc = "resolved" /\ TimesRead # <<>>) =>
    AveragedRecords =
      IF fetchArgs.startTime = fetchArgs.endTime
      THEN FirstRecordOfHour(fetchArgs.startTime)
      ELSE {i \in DOMAIN TimesRead :
              /\ fetchArgs.startTime <= RecordTime(TimesRead[i])
              /\ RecordTime(TimesRead[i]) <= fetchArgs.endTime}

\* ------------------------------------------- claims on the averages

\* The call went down the success path: its try block returned.
SuccessPath ==
  /\ fetchPc = "resolved"
  /\ ~weatherDataOf(fetchResult.data, fetchArgs.startTime, fetchArgs.endTime,
                    fetchArgs.offset).threw

\* The readings of metric m in the body the call read.
ReadingsOf(m) == Get(Get(fetchResult.data, "hourly"), HourlyKey[m])

\* The reading of record i, a missing one counted as 0.
ReadingOrZero(array, i) ==
  IF i \in DOMAIN array.v /\ array.v[i].t = "number" THEN array.v[i].v ELSE 0

\* The sum of the readings of the records in the set indices.
RECURSIVE SumOfReadings(_, _)
SumOfReadings(array, indices) ==
  IF indices = {} THEN 0
  ELSE LET i == CHOOSE i \in indices : TRUE
       IN ReadingOrZero(array, i) + SumOfReadings(array, indices \ {i})

\* No reading of the averaged records is a text.
ReadingsAreNumbersOrMissing ==
  \A m \in MetricNames, i \in AveragedRecords :
    i \in DOMAIN ReadingsOf(m).v => ReadingsOf(m).v[i].t # "string"

\* x, in thousandths, is sum / count rounded to one decimal place, a tie
\* going up.
IsRoundedQuotient(x, sum, count) ==
  /\ x % 100 = 0
  /\ x * count - 50 * count <= sum
  /\ sum < x * count + 50 * count

\* C22: on the success path every returned metric is the sum of the
\* metric's readings over the selected records, a missing reading counted
\* as 0, divided by the number of selected records, the missing ones
\* counted, and rounded to one decimal place.
MetricIsRoundedMean ==
  (SuccessPath /\ ReadingsAreNumbersOrMissing) =>
    \A m \in MetricNames :
      /\ fetchResult.ret.v[m].t = "number"
      /\ IsRoundedQuotient(fetchResult.ret.v[m].v,
                           SumOfReadings(ReadingsOf(m), AveragedRecords),
                           Cardinality(AveragedRecords))

\* C22's case: two records were averaged, the reading of the second was
\* missing, and 15.5 / 2 = 7.75 came back as 7.8.
MetricIsRoundedMeanWitness ==
  /\ SuccessPath
  /\ Cardinality(AveragedRecords) = 2
  /\ ReadingsOf("temperature") = Arr(<<Num(15500), Null>>)
  /\ fetchResult.ret.v["temperature"] = Num(7800)

\* ------------------------------------- claims on the keys of the timeline

\* C23 as stated: every ArrowUp on a range moves the start earlier and the
\* end later by the same step (an hour, a day with Shift), so the midpoint
\* of the range is unchanged.
ExpandKeepsMidpoint ==
  [][\A shift \in BOOLEAN :
       (KeyArrowUp(shift) /\ timeSelection.mode = "range") =>
         LET step == IF shift THEN dayMs ELSE hourMs
         IN /\ timeSelection'.range[1] = timeSelection.range[1] - step
            /\ timeSelection'.range[2] = timeSelection.range[2] + step
            /\ timeSelection'.range[1] + timeSelection'.range[2] =
                 timeSelection.range[1] + timeSelection.range[2]]_vars

\* C23: ArrowUp on a range [s, e] with the step c (an hour, a day with
\* Shift) moves the start to s - c, or to the low end of the extent when
\* s - c lies before it, and the end to e + c, or to the high end of the
\* extent when e + c lies after it; the midpoint is unchanged when neither
\* end is stopped by the extent.
ExpandWidensWithinExtent ==
  [][\A shift \in BOOLEAN :
       (KeyArrowUp(shift) /\ timeSelection.mode = "range") =>
         LET c == IF shift THEN dayMs ELSE hourMs
             s == timeSelection.range[1]
             e == timeSelection.range[2]
         IN /\ timeSelection'.mode = "range"
            /\ timeSelection'.range[1] = IF s - c < timeExtent[1] THEN timeExtent[1] ELSE s - c
            /\ timeSelection'.range[2] = IF e + c > timeExtent[2] THEN timeExtent[2] ELSE e + c
            /\ (s - c >= timeExtent[1] /\ e + c <= timeExtent[2]) =>
                 timeSelection'.range[1] + timeSelection'.range[2] = s + e]_vars

\* An ArrowUp has left the end of the range at the high end of the extent
\* and its start inside the extent.
ExpandStoppedWitness ==
  /\ lastInput = [key |-> "ArrowUp"]
  /\ timeSelection.mode = "range"
  /\ timeSelection.range[2] = timeExtent[2]
  /\ timeSelection.range[1] > timeExtent[1]

\* C24: the 'r' key and the "Time Range" button turn the instant t into
\* the range [t - 1 hour, t + 1 hour]; the 'r' key and the "Single Point"
\* button turn the range [s, e] into the instant (s + e) / 2; from an
\* instant, toggling twice gives the instant back; and the key does what
\* the button of the other mode does.
TogglesAreInverse ==
  /\ [](timeSelection.mode = "single" =>
          /\ toggleMode(toggleMode(timeSelection)) = timeSelection
          /\ toSingleMode(toRangeMode(timeSelection)) = timeSelection)
  /\ [][((KeyR \/ ClickTimeRange) /\ timeSelection.mode = "single") =>
          timeSelection' = [mode |-> "range",
                            range |-> <<timeSelection.single - hourMs,
                                        timeSelection.single + hourMs>>]]_vars
  /\ [][((KeyR \/ ClickSinglePoint) /\ timeSelection.mode = "range") =>
          /\ timeSelection'.mode = "single"
          /\ 2 * timeSelection'.single =
               timeSelection.range[1] + timeSelection.range[2]]_vars

\* The 'r' key has turned the range of an hour on either side of the
\* instant of loading back into that instant.
TogglesAreInverseWitness ==
  /\ lastInput = [key |-> "r"]
  /\ timeSelection = Single(now)

\* x brought into [lo, hi], lo <= hi.
Clamped(x, lo, hi) == IF x < lo THEN lo ELSE IF x > hi THEN hi ELSE x

\* The step of an arrow key: an hour, a day with Shift, a week with Ctrl
\* or Cmd, backward for ArrowLeft.
DeltaOf(key, modifier) ==
  LET step == IF modifier = "shift" THEN dayMs
              ELSE IF modifier = "ctrl" THEN 7 * dayMs ELSE hourMs
  IN IF key = "ArrowLeft" THEN -step ELSE step

OnTheHour(t) == t % hourMs = 0

\* C26: after a click on the timeline or a move of a dragged handle, every
\* instant the handler set is a whole number of hours: the instant of
\* single mode, the start or the end a handle was dragged to, and both
\* ends of a range moved by dragging it or by a click.
PointerSnapsToHour ==
  [][(\E p \in 0 .. PosSteps : MouseMove(p) \/ TimelineClick(p)) =>
       IF timeSelection.mode = "single"
       THEN isDragging \in {"single", "null"} => OnTheHour(timeSelection'.single)
       ELSE /\ isDragging = "start" => OnTheHour(timeSelection'.range[1])
            /\ isDragging = "end" => OnTheHour(timeSelection'.range[2])
            /\ isDragging \in {"range", "null"} =>
                 /\ OnTheHour(timeSelection'.range[1])
                 /\ OnTheHour(timeSelection'.range[2])]_vars

\* ------------------------------- claims on the frame of a weather result

\* The fields of a polygon a weather result leaves alone.
KeptFields == {"id", "name", "coordinates", "color"}

\* C27: a weather result applied for a polygon id changes nothing but the
\* metrics of the polygon with that id: the collection keeps its length
\* and the order of its ids, every polygon keeps its name, coordinates and
\* color, every other polygon is unchanged, and a result for a polygon
\* removed while its fetch was in flight leaves the collection as it is,
\* without that polygon in memory and in storage.
ResultChangesOnlyMetrics ==
  [][\A s \in BatchSlots, polygonId \in PolygonIds, failed \in BOOLEAN :
       PolygonFetchSettles(s, polygonId, failed) =>
         /\ Len(polygons'.v) = Len(polygons.v)
         /\ \A i \in DOMAIN polygons.v :
              /\ \A field \in KeptFields :
                   Get(polygons'.v[i], field) = Get(polygons.v[i], field)
              /\ Get(polygons.v[i], "id") # polygonId => polygons'.v[i] = polygons.v[i]
         /\ polygonId \notin IdsOf(polygons) =>
              /\ polygons' = polygons
              /\ polygonId \notin IdsOf(Persisted("polygons")')]_vars

\* A run has settled the fetch of a polygon that is no longer in the
\* collection, another polygon being on the map: the state a result for a
\* removed polygon leaves.
ResultForRemovedPolygonWitness ==
  \E s \in InFlight(batches), polygonId \in PolygonIds :
    /\ polygonId \in batches[s].ids
    /\ polygonId \notin batches[s].pending
    /\ polygonId \notin IdsOf(polygons)
    /\ Len(polygons.v) = 1

\* ------------------------------- the map view and its debounced save

\* The ticks of the 300 ms debouncedSaveMapView waits.
DebounceTicks == 2
\* How many times the map moves before it comes to rest.
MaxMoves == 3

\* The centers and zooms the map is moved to.
MapPositions ==
  {MapView(407128, -740060, 10), MapView(407128, -740060, 11),
   MapView(408000, -739000, 11)}

MapFrame ==
  UNCHANGED <<storageEnv, now, lastCall, timelineVars, colorVars, fetchVars, batchVars,
              drawVars, geoVars>>

\* What a change of one of the dependencies of the effect that made the
\* map does to it: React will run the cleanup of the run that made the map
\* and run the effect again; the later runs return at once, map.current
\* being set, and leave no cleanup.
dependencyChanged(run) == IF run = "mounted" THEN "stale" ELSE run

\* 'moveend' or 'zoomend' with the map at position: debouncedSaveMapView
\* clears the timer and sets it anew.
MoveEnd(position) ==
  /\ moves < MaxMoves
  /\ mapPosition' = position
  /\ saveTimeout' = <<DebounceTicks>>
  /\ sinceMove' = 0
  /\ moves' = moves + 1
  /\ mapWrites' = 0
  /\ UNCHANGED <<mapView, mapEffect, isMobile, storageItem>>
  /\ MapFrame

\* A tick of time passes.  A timer that is due fires first, and React
\* commits a pending render within the tick.
TimePasses ==
  /\ saveTimeout # <<0>>
  /\ mapEffect # "stale"
  /\ sinceMove < DebounceTicks
  /\ sinceMove' = sinceMove + 1
  /\ saveTimeout' = IF saveTimeout = <<>> THEN <<>> ELSE <<saveTimeout[1] - 1>>
  /\ UNCHANGED <<mapView, mapPosition, mapEffect, isMobile, moves, mapWrites, storageItem>>
  /\ MapFrame

\* The timer fires: saveMapView reads the map's center and zoom, hands them
\* to onMapViewChange (setMapView in the dashboard) and saves them.
SaveMapView ==
  /\ saveTimeout = <<0>>
  /\ saveTimeout' = <<>>
  /\ mapView' = mapPosition
  /\ storageItem' =
       saveToStorage(storageEnv, storageItem, now, [mapView |-> mapPosition]).item
  /\ mapEffect' = dependencyChanged(mapEffect)
  /\ mapWrites' = mapWrites + 1
  /\ UNCHANGED <<mapPosition, isMobile, sinceMove, moves>>
  /\ MapFrame

\* The window is resized across the width of 768: checkMobile sets isMobile.
Resize ==
  /\ isMobile' = ~isMobile
  /\ mapEffect' = dependencyChanged(mapEffect)
  /\ UNCHANGED <<mapView, mapPosition, saveTimeout, sinceMove, moves, mapWrites,
                 storageItem>>
  /\ MapFrame

\* React commits the render after the first change of a dependency: the
\* cleanup of the run that made the map clears initTimer and saveTimeout,
\* and the effect returns at its first line.
EffectReruns ==
  /\ mapEffect = "stale"
  /\ mapEffect' = "rerun"
  /\ saveTimeout' = <<>>
  /\ UNCHANGED <<mapView, mapPosition, isMobile, sinceMove, moves, mapWrites,
                 storageItem>>
  /\ MapFrame

NextMapView ==
  \/ \E position \in MapPositions : MoveEnd(position)
  \/ TimePasses
  \/ SaveMapView
  \/ Resize
  \/ EffectReruns

\* The dashboard after it loaded the default state, the map made from it.
InitMapView ==
  /\ now = StartTime
  /\ storageEnv = "ok"
  /\ storageItem = Stringify(Obj(defaultState(StartTime)))
  /\ lastCall = NoCall
  /\ TimelineIdle
  /\ ColorIdle
  /\ FetchIdle
  /\ BatchIdle
  /\ DrawIdle
  /\ GeoIdle
  /\ MapIdle

SpecMapView == InitMapView /\ [][NextMapView]_vars

\* Time goes on, a due timer fires, and React commits a pending render.
SpecMapViewFair ==
  SpecMapView /\ WF_vars(TimePasses) /\ WF_vars(SaveMapView) /\ WF_vars(EffectReruns)

\* --------------------------------------- claims on the map view's save

\* The map view is written only once DebounceTicks have passed since the
\* map last moved, and once at most until it moves again.
SingleWriteAfterBurst ==
  /\ [](mapWrites <= 1)
  /\ [][mapWrites' > mapWrites => sinceMove = DebounceTicks]_vars

\* C28: the save of the map view is debounced: moves that follow one
\* another by less than 300 ms cause a single write made after the last
\* of them, and once the map has come to rest the map view in storage
\* eventually equals, and stays, the map's center and zoom.
MapViewSavedAfterBurst ==
  /\ SingleWriteAfterBurst
  /\ <>[](Persisted("mapView") = mapPosition)

\* ----------------------------- claims on the swatch and the map layer

\* The polygons the two functions are compared on: the one on the map,
\* and the stored polygon without weather data, with null for it, and with
\* each of the weather inputs.
SwatchInputs ==
  {thePolygon(polygons), StoredPolygon, withWeatherData(StoredPolygon, Null)}
    \cup {withWeatherData(StoredPolygon, weatherData) : weatherData \in WeatherInputs}

\* C29: for every polygon, every list of color rules and every selected
\* data source, the sidebar's getPolygonColor and the map layer's
\* getPolygonColor return the same color.
SwatchMatchesLayer ==
  \A polygon \in SwatchInputs, source \in MetricNames :
    sidebarPolygonColor(polygon, colorRules, source) =
      getPolygonColor(polygon, colorRules, source)

\* The polygon on the map holds weather data, the rules were edited, and
\* the swatch and the layer show the color of a condition.
SwatchMatchesLayerWitness ==
  /\ Truthy(Get(thePolygon(polygons), "weatherData"))
  /\ colorRules # StoredRules
  /\ fillColor # NeutralColor
  /\ sidebarPolygonColor(thePolygon(polygons), colorRules, selectedDataSource) = fillColor

\* ------------------------------------ claims on the conditions of a rule

\* The number of conditions of the rule at index i of the list.
ConditionCount(rules, i) == Len(Get(rules.v[i], "conditions").v)

\* C30: whatever conditions the sidebar adds, updates and removes, a rule
\* with at least one condition keeps at least one: no step takes a
\* condition from a rule that has a single one, and while the selected
\* rule has a single condition removeColorCondition changes nothing.
RuleKeepsACondition ==
  /\ [](\A i \in DOMAIN colorRules.v : ConditionCount(colorRules, i) >= 1)
  /\ []((/\ Truthy(currentRule(colorRules, selectedDataSource))
         /\ Len(currentConditions) = 1) =>
          \A index \in 1 .. MaxConditions : ~ENABLED RemoveColorCondition(index))
  /\ [][\A i \in DOMAIN colorRules.v :
          /\ i \in DOMAIN colorRules'.v
          /\ ConditionCount(colorRules', i) < ConditionCount(colorRules, i) =>
               ConditionCount(colorRules, i) > 1]_vars

\* A removal has left the selected rule, stored with two conditions, with
\* a single one, which no removal takes away.
RuleKeepsAConditionWitness ==
  /\ Truthy(currentRule(colorRules, selectedDataSource))
  /\ Len(currentConditions) = 1
  /\ \A index \in 1 .. MaxConditions : ~ENABLED RemoveColorCondition(index)

====
